---- MODULE Spec2Model ----
(***************************************************************************)
(* Model of the governed execution core of ai_system: the proposal store   *)
(* (node_dds), the execution engine (node_programmer), the sequential      *)
(* scheduler (node_scheduler), the reactive failure pipeline (node_worker) *)
(* and the contract/dispatch layer (node_interface).                       *)
(*                                                                         *)
(* Files are modelled by their contents: dds.json is the sequence `store`, *)
(* reports.json the sequence `reports`, contract_audit.jsonl the sequence  *)
(* `audit`.                                                                *)
(***************************************************************************)
EXTENDS Integers, Sequences, FiniteSets, TLC

VARIABLES store, reports, audit, processed, clock, effects, config, ret

vars == <<store, reports, audit, processed, clock, effects, config, ret>>

(***************************************************************************)
(* Bounds of the model.                                                    *)
(***************************************************************************)
MaxProposals == 2
MaxEngineProposals == 1
MaxStore == 3
MaxReports == 3
MaxAudit == 2
MaxClock == 2
MaxPathsLen == 2
MaxSchedProposals == 3
MaxDispatch == 1

\* the failure -> fix pipeline: entries of a report log, proposals with their
\* fixes in the store, readings of the clock
MaxLog == 2

MaxPipelineStore == 4

MaxPipelineClock == 3

\* requests dispatched while proposals are created, approved and executed
MaxCreateAudit == 3

\* the largest maximum of changed files a proposal declares
MaxDeclared == 4

(***************************************************************************)
(* Proposal ids.  An id stands for the string the code builds:             *)
(*   k = "new": "DDS-<%Y%m%d%H%M%S%f>"   (router.py:476)                    *)
(*   k = "fix": "DDS-FIX-<%Y%m%d-%H%M%S>" (fix_dds_generator.py:34-35)      *)
(*   k = "reg": "DDS-<%Y%m%d%H%M%S>", given by add_proposal to a proposal  *)
(*              that has no id (dds_registry.py:98-100)                     *)
(*   k = "pre": "DDS-TEST<n>", an id preset by the proposer                *)
(* The timestamps have a fixed width, so the lexicographic order of the    *)
(* strings is: every "DDS-<digit>.." below every "DDS-FIX-.." below every  *)
(* "DDS-TEST..", and by number inside one family; a "reg" id is a proper   *)
(* prefix of the "new" ids of its second, and so below them.               *)
(***************************************************************************)
NoId == [k |-> "none", n |-> 0]

PresetIds == {[k |-> "pre", n |-> i] : i \in 1..3}

KindRank(k) == CASE k \in {"new", "reg"} -> 1 [] k = "fix" -> 2 [] k = "pre" -> 3 [] OTHER -> 0

\* one second of the model clock holds this many microsecond ticks
TicksPerSecond == 2

\* a < b as Python compares the two strings
IdLess(a, b) ==
    \/ KindRank(a.k) < KindRank(b.k)
    \/ a.k = b.k /\ a.n < b.n
    \/ a.k = "reg" /\ b.k = "new" /\ a.n <= b.n \div TicksPerSecond
    \/ a.k = "new" /\ b.k = "reg" /\ a.n \div TicksPerSecond < b.n

RegId(t) == [k |-> "reg", n |-> t \div TicksPerSecond]

NewId(t) == [k |-> "new", n |-> t]

FixId(t) == [k |-> "fix", n |-> t \div TicksPerSecond]

(***************************************************************************)
(* Paths and the file system seen by the engine.  A path is a flag for a   *)
(* leading "/" and its components.  The workspace of a proposal is the     *)
(* directory <<"ws">>, the sandbox is <<"sb">>; the project copied into    *)
(* the workspace has a directory "src" holding the file a.py and an empty  *)
(* directory "empty".                                                      *)
(***************************************************************************)
WorkspaceRoot == <<"ws">>

SandboxRoot == <<"sb">>

FSFiles == {<<"ws", "src", "a.py">>}

FSNodes == {<<>>, <<"ws">>, <<"ws", "src">>, <<"ws", "empty">>, <<"sb">>, <<"etc">>} \cup FSFiles

Rel(comps) == [abs |-> FALSE, comps |-> comps]

Abs(comps) == [abs |-> TRUE, comps |-> comps]

NoPath == [abs |-> FALSE, comps |-> <<"?none">>]

IsPrefix(p, q) == Len(p) <= Len(q) /\ SubSeq(q, 1, Len(p)) = p

\* base / path, as pathlib joins them: an absolute right operand replaces the base
Join(base, p) == IF p.abs THEN p.comps ELSE base \o p.comps

\* Path.resolve(): ".." removes the last component, the root is its own parent
RECURSIVE Resolve(_, _)
Resolve(cur, comps) ==
    IF comps = <<>> THEN cur
    ELSE IF Head(comps) = ".."
         THEN Resolve(IF cur = <<>> THEN cur ELSE SubSeq(cur, 1, Len(cur) - 1), Tail(comps))
         ELSE Resolve(Append(cur, Head(comps)), Tail(comps))

\* Path.exists(): every directory walked through must exist
RECURSIVE WalkExists(_, _)
WalkExists(cur, comps) ==
    IF cur \notin FSNodes THEN FALSE
    ELSE IF comps = <<>> THEN TRUE
    ELSE IF Head(comps) = ".."
         THEN WalkExists(IF cur = <<>> THEN cur ELSE SubSeq(cur, 1, Len(cur) - 1), Tail(comps))
         ELSE WalkExists(Append(cur, Head(comps)), Tail(comps))

HasDotDot(p) == \E i \in 1..Len(p.comps) : p.comps[i] = ".."

(***************************************************************************)
(* Proposals.  A record of the store carries                                *)
(*   id, status, type ("none" when the record has no type tag),            *)
(*   exec: the shape of the execution fields version/project/goal/         *)
(*         instructions/tool: "ok", "absent" (a version 1 record),         *)
(*         "no_instructions", "project_missing" (all fields present, but   *)
(*         no directory of the project's name exists),                     *)
(*   paths: allowed_paths (<<>> when absent or empty),                     *)
(*   cons: the constraints record or NoCons; legacy tells that the maximum  *)
(*         is declared under the key max_files, not max_files_changed,     *)
(*   tpath, content: the raw touch_file fields "path" and "content",       *)
(*   last: last_execution.status ("none" when absent),                     *)
(*   source: source_dds or NoId,                                           *)
(*   errctx: error_context or NoErrorContext.                              *)
(***************************************************************************)
NoCons == [max |-> -1, nodeps |-> FALSE, norefactor |-> FALSE, present |-> FALSE, legacy |-> FALSE]

Cons(m, d, r) == [max |-> m, nodeps |-> d, norefactor |-> r, present |-> TRUE, legacy |-> FALSE]

\* constraints that declare their maximum under the key max_files
LegacyCons(m, d, r) == [Cons(m, d, r) EXCEPT !.legacy = TRUE]

NoErrorContext == [original_dds |-> NoId, error_message |-> ""]

Statuses == {"draft", "proposed", "approved", "rejected", "executed", "failed"}

\* DDSProposal.from_dict followed by to_dict: the keys the dataclass does not
\* know (last_execution, path, content) are dropped
from_dict_to_dict(p) == [p EXCEPT !.last = "none", !.tpath = NoPath, !.content = FALSE]

\* DDSRegistry._load_proposals then _save_proposals: every record is rewritten
save_proposals(st) == [i \in 1..Len(st) |-> from_dict_to_dict(st[i])]

HasId(st, id) == \E i \in 1..Len(st) : st[i].id = id

\* index of the first record with this id (the loops of the code break at it)
FirstIndex(st, id) == CHOOSE i \in 1..Len(st) : st[i].id = id /\ \A j \in 1..(i - 1) : st[j].id # id

\* DDSRegistry.approve / reject / Scheduler._mark_*: set the status of the first match
SetStatus(st, id, s) ==
    LET i == FirstIndex(st, id)
    IN save_proposals([st EXCEPT ![i].status = s])

\* DDSRegistry.approve(proposal_id): returns <<store, found>>
approve(st, id) == IF HasId(st, id) THEN <<SetStatus(st, id, "approved"), TRUE>> ELSE <<st, FALSE>>

\* DDSRegistry.reject(proposal_id)
reject(st, id) == IF HasId(st, id) THEN <<SetStatus(st, id, "rejected"), TRUE>> ELSE <<st, FALSE>>

\* DDSRegistry.add_proposal(proposal) with a preset id
add_proposal(st, p) == Append(save_proposals(st), from_dict_to_dict(p))

\* DDSRegistry.add_proposal(proposal) for a proposal without id, at clock reading t
add_proposal_without_id(st, p, t) == add_proposal(st, [p EXCEPT !.id = RegId(t)])

(***************************************************************************)
(* Execution reports: [dds_id, action_type, status, notes].  The notes are *)
(* an abstract name for the text the code writes.                          *)
(***************************************************************************)
Report(id, t, s, n) == [dds_id |-> id, action_type |-> t, status |-> s, notes |-> n]

\* a save that writes the new report over the log
save_report_overwrite(rp, r) == <<r>>

\* Programmer._save_execution_report / _save_report: load, append, write back
save_report(rp, r) == Append(rp, r)

\* a marking that leaves dds.json as it is
mark_dds_executed_skipped(st, id, s) == st

\* Programmer._mark_dds_executed: a raw edit of dds.json, first match only
mark_dds_executed(st, id, s) ==
    IF HasId(st, id) THEN [st EXCEPT ![FirstIndex(st, id)].last = s] ELSE st

\* Programmer._check_already_executed: last_execution.status of the first match
check_already_executed(st, id) == HasId(st, id) /\ st[FirstIndex(st, id)].last = "success"

\* a check that looks for successful executions only
is_already_executed_success_only(rp, id) ==
    \E i \in 1..Len(rp) : rp[i].dds_id = id /\ rp[i].status = "success"

\* Programmer._is_already_executed: any report for this id
is_already_executed(rp, id) == \E i \in 1..Len(rp) : rp[i].dds_id = id

IsApprovedAt(st, i, id) == st[i].id = id /\ st[i].status = "approved"

\* a lookup that forgets the status filter
find_any_status(st, id) == IF HasId(st, id) THEN FirstIndex(st, id) ELSE 0

\* Programmer._get_approved_dds followed by the search loop of execute_*:
\* the index of the first approved record with this id, 0 when there is none
find_approved(st, id) ==
    IF \E i \in 1..Len(st) : IsApprovedAt(st, i, id)
    THEN CHOOSE i \in 1..Len(st) : IsApprovedAt(st, i, id) /\ \A j \in 1..(i - 1) : ~IsApprovedAt(st, j, id)
    ELSE 0

HasApproved(st, id) == find_approved(st, id) # 0

FirstApproved(st, id) == st[find_approved(st, id)]

\* Programmer._validate_dds_v2: the first failing check, or "ok"
validate_dds_v2(p) ==
    IF p.exec = "absent" THEN "invalid_version"
    ELSE IF p.type # "code_change" THEN "invalid_type"
    ELSE IF p.exec = "no_instructions" THEN "missing_instructions"
    ELSE IF p.paths = <<>> THEN "missing_allowed_paths"
    ELSE IF ~p.cons.present THEN "missing_constraints"
    ELSE IF p.status # "approved" THEN "not_approved_status"
    ELSE "ok"

\* the files at or below a node of the file system
FilesUnder(node) == {f \in FSFiles : IsPrefix(node, f)}

\* execute_code_change, PHASE 4, one allowed path: it exists, it resolves inside
\* the workspace, it is copied to scoped_path / allowed.  For an absolute path
\* the target of the copy is the source itself, and copying a file onto itself
\* raises (shutil.SameFileError), which the generic handler reports.
ScopedPathError(p) ==
    LET source_path == Join(WorkspaceRoot, p)
    IN IF ~WalkExists(<<>>, source_path) THEN "path_missing"
       ELSE IF ~IsPrefix(WorkspaceRoot, Resolve(<<>>, source_path)) THEN "path_escape"
       ELSE IF p.abs /\ FilesUnder(Resolve(<<>>, source_path)) # {} THEN "workspace_creation_failed"
       ELSE "ok"

\* the loop over allowed_paths stops at the first path that raises
RECURSIVE ScopedError(_)
ScopedError(paths) ==
    IF paths = <<>> THEN "ok"
    ELSE IF ScopedPathError(Head(paths)) # "ok" THEN ScopedPathError(Head(paths))
    ELSE ScopedError(Tail(paths))

(***************************************************************************)
(* Workspace snapshots: a function from file name to content digest.       *)
(***************************************************************************)
\* the scoped workspace before the tool runs holds the project file a.py
BeforeSnapshot == [f \in {"a.py"} |-> 1]

\* how a call of the external tool ends: aider exits with 0 or with another
\* code, runs into the timeout of subprocess.run, or is not installed
ToolOutcomes == {"exit_0", "exit_nonzero", "timeout", "not_installed"}

\* a runner that lets the exceptions of subprocess.run through
run_aider_raising(outcome) ==
    [success |-> outcome = "exit_0", raised |-> outcome \in {"timeout", "not_installed"}]

\* run_aider: the result dict; TimeoutExpired, FileNotFoundError and any other
\* exception are caught and turned into a result with success = False
run_aider(outcome) == [success |-> outcome = "exit_0", raised |-> FALSE]

\* one run of the tool: how it ends and the snapshot of the scoped workspace
\* it leaves behind
ToolRun(outcome, files) == [outcome |-> outcome, files |-> files]

NoToolRun == ToolRun("none", BeforeSnapshot)

\* the tool changes a.py and creates b.py, or runs into its timeout and leaves
\* the workspace as it was
ToolRuns ==
    { ToolRun("exit_0", [f \in {"a.py", "b.py"} |-> IF f = "a.py" THEN 2 ELSE 1]),
      ToolRun("timeout", [f \in {"a.py"} |-> 1]) }

\* a diff that takes its first snapshot after the tool has run
detect_changes_late(before, after) ==
    [created |-> {}, modified |-> {}, deleted |-> {}]

\* Programmer._detect_changes
detect_changes(before, after) ==
    [created |-> {f \in DOMAIN after : f \notin DOMAIN before},
     modified |-> {f \in DOMAIN after : f \in DOMAIN before /\ before[f] # after[f]},
     deleted |-> {f \in DOMAIN before : f \notin DOMAIN after}]

IsDependencyFile(f) == f = "requirements.txt"

RefactorThreshold == 3

\* a check that knows the maximum of changed files only
validate_constraints_max_only(cons, created, modified) ==
    IF cons.present /\ cons.max >= 0 /\ Cardinality(created) + Cardinality(modified) > cons.max
    THEN {"max_files"} ELSE {}

\* Programmer._validate_constraints: the set of violations
validate_constraints(cons, created, modified) ==
    LET total == Cardinality(created) + Cardinality(modified)
    IN  (IF cons.present /\ cons.max >= 0 /\ total > cons.max THEN {"max_files"} ELSE {})
        \cup (IF cons.present /\ cons.nodeps /\ (\E f \in created \cup modified : IsDependencyFile(f))
              THEN {"dependency"} ELSE {})
        \cup (IF cons.present /\ cons.norefactor /\ total > RefactorThreshold
              THEN {"refactor"} ELSE {})

(***************************************************************************)
(* The engine.  Each execute_* operator returns                            *)
(*   st, rp : the store and the report log after the call,                 *)
(*   out    : "success" or "failed" (the status of the returned report),   *)
(*            or "raise" (ProgrammerError),                                *)
(*   err    : the error raised ("" when none),                             *)
(*   effect : whether the external tool was invoked / a file written.      *)
(***************************************************************************)
Res(st, rp, out, err, effect) == [st |-> st, rp |-> rp, out |-> out, err |-> err, effect |-> effect]

\* the part of execute_code_change inside the try block (programmer.py:755-964);
\* `after` is the run of the tool.  The result of run_aider is not looked at; an
\* exception of run_aider would end in the handler for unexpected exceptions
code_change_body(st, rp, id, after) ==
    LET dds == FirstApproved(st, id)
        result == run_aider(after.outcome)
        verr == validate_dds_v2(dds)
        perr == ScopedError(dds.paths)
        fail(e) == Res(mark_dds_executed(st, id, "failed"),
                       save_report(rp, Report(id, "code_change", "failed", e)),
                       "raise", e, FALSE)
        diff == detect_changes(BeforeSnapshot, after.files)
        violations == validate_constraints(dds.cons, diff.created, diff.modified)
        status == IF violations = {} THEN "success" ELSE "failed"
        notes == IF violations # {} THEN "constraint_violations"
                 ELSE IF diff.created \cup diff.modified # {} THEN "completed"
                 ELSE "no_changes"
    IN  IF verr # "ok" THEN fail(verr)
        ELSE IF dds.exec = "project_missing" THEN fail("project_not_found")
        ELSE IF perr # "ok" THEN fail(perr)
        ELSE IF result.raised THEN fail("workspace_creation_failed")
        ELSE Res(mark_dds_executed(st, id, status),
                 save_report(rp, Report(id, "code_change", status, notes)),
                 status, "", TRUE)

\* Programmer.execute_code_change(dds_id); `after` is what the tool leaves behind
execute_code_change(st, rp, id, after) ==
    IF check_already_executed(st, id)
    THEN Res(st, save_report(rp, Report(id, "code_change", "failed", "already_executed_successfully")),
             "raise", "already_executed", FALSE)
    ELSE IF is_already_executed(rp, id) THEN Res(st, rp, "raise", "already_executed", FALSE)
    ELSE IF ~HasApproved(st, id) THEN Res(st, rp, "raise", "not_found_or_not_approved", FALSE)
    ELSE code_change_body(st, rp, id, after)

\* Programmer._validate_allowed_paths(target, allowed_paths): the error, or "ok"
validate_allowed_paths(target, paths) ==
    IF paths = <<>> THEN "missing_allowed_paths"
    ELSE IF \E i \in 1..Len(paths) : IsPrefix(Resolve(<<>>, Join(SandboxRoot, paths[i])), target)
         THEN "ok"
         ELSE "target_not_allowed"

\* Programmer._validate_sandbox_path(relative_path): the error, or "ok"
validate_sandbox_path(p) ==
    IF p.abs THEN "absolute_path"
    ELSE IF HasDotDot(p) THEN "path_traversal"
    ELSE IF ~IsPrefix(SandboxRoot, Resolve(<<>>, Join(SandboxRoot, p))) THEN "outside_sandbox"
    ELSE "ok"

\* the marker file of execute_noop: SANDBOX_DIR/noop_<id>_<timestamp>.txt
NoopTarget == Append(SandboxRoot, "noop.txt")

\* execute_noop with its two precondition checks in the other order
execute_noop_approval_first(st, rp, id) ==
    IF ~HasApproved(st, id) THEN Res(st, rp, "raise", "not_found_or_not_approved", FALSE)
    ELSE IF is_already_executed(rp, id) THEN Res(st, rp, "raise", "already_executed", FALSE)
    ELSE LET dds == FirstApproved(st, id)
             aerr == validate_allowed_paths(NoopTarget, dds.paths)
         IN IF aerr # "ok"
            THEN Res(st, save_report(rp, Report(id, "noop", "failed", aerr)), "raise", aerr, FALSE)
            ELSE Res(st, save_report(rp, Report(id, "noop", "success", "noop_completed")),
                     "success", "", TRUE)

\* Programmer.execute_noop(dds_id)
execute_noop(st, rp, id) ==
    IF is_already_executed(rp, id) THEN Res(st, rp, "raise", "already_executed", FALSE)
    ELSE IF ~HasApproved(st, id) THEN Res(st, rp, "raise", "not_found_or_not_approved", FALSE)
    ELSE LET dds == FirstApproved(st, id)
             aerr == validate_allowed_paths(NoopTarget, dds.paths)
         IN IF aerr # "ok"
            THEN Res(st, save_report(rp, Report(id, "noop", "failed", aerr)), "raise", aerr, FALSE)
            ELSE Res(st, save_report(rp, Report(id, "noop", "success", "noop_completed")),
                     "success", "", TRUE)

\* Programmer.execute_touch_file(dds_id)
execute_touch_file(st, rp, id) ==
    IF is_already_executed(rp, id) THEN Res(st, rp, "raise", "already_executed", FALSE)
    ELSE IF ~HasApproved(st, id) THEN Res(st, rp, "raise", "not_found_or_not_approved", FALSE)
    ELSE LET dds == FirstApproved(st, id)
             serr == validate_sandbox_path(dds.tpath)
             target == Resolve(<<>>, Join(SandboxRoot, dds.tpath))
             aerr == validate_allowed_paths(target, dds.paths)
         IN IF dds.tpath = NoPath THEN Res(st, rp, "raise", "missing_path", FALSE)
            ELSE IF ~dds.content THEN Res(st, rp, "raise", "missing_content", FALSE)
            ELSE IF serr # "ok" THEN Res(st, rp, "raise", serr, FALSE)
            ELSE IF aerr # "ok" THEN Res(st, rp, "raise", aerr, FALSE)
            ELSE Res(st, save_report(rp, Report(id, "touch_file", "success", "file_written")),
                     "success", "", TRUE)

(***************************************************************************)
(* Contract (node_interface/contract.py)                                   *)
(***************************************************************************)
ReadOnlyActions ==
    {"system_status", "project_info", "project_summary", "project_list", "project_status",
     "inbox", "dds_list", "dds_list_proposed", "exec_status", "todo_list"}

WriteActions == {"dds_new", "dds_approve", "dds_reject", "execute", "todo_to_dds"}

\* the members of the Action enum
Actions ==
    {"system_status", "project_info", "project_summary", "project_list", "project_status",
     "inbox", "dds_list", "dds_list_proposed", "exec_status", "todo_list",
     "dds_new", "dds_approve", "dds_reject", "execute", "todo_to_dds"}

\* values a caller can put in request.action that are no member of Action:
\* a member of another Enum (it has a .value) and a plain string (it has none)
ForeignActions == {"foreign_enum_member", "plain_string"}

\* a classification that takes every action for read-only
is_read_only_always(a) == TRUE

is_read_only(a) == a \in ReadOnlyActions

is_write(a) == a \in WriteActions

\* PAYLOAD_SCHEMAS: the declared fields of an action, each with its required flag
PayloadSchema(a) ==
    CASE a \in {"project_info", "project_summary", "project_status"} -> {<<"name", TRUE>>}
      [] a = "inbox" -> {<<"count", FALSE>>}
      [] a = "dds_new" -> {<<"project", TRUE>>, <<"title", TRUE>>, <<"description", TRUE>>}
      [] a \in {"dds_approve", "dds_reject"} -> {<<"proposal_id", TRUE>>}
      [] a = "execute" -> {<<"dds_id", TRUE>>}
      [] a = "todo_to_dds" -> {<<"todo_id", TRUE>>}
      [] OTHER -> {}

HasSchema(a) ==
    a \in {"project_info", "project_summary", "project_status", "inbox", "dds_new",
           "dds_approve", "dds_reject", "execute", "todo_to_dds"}

\* a validation that takes every declared field for required
validate_payload_all_declared(a, payload) ==
    IF ~HasSchema(a) THEN {}
    ELSE {f[1] : f \in {g \in PayloadSchema(a) : g[1] \notin DOMAIN payload}}

\* validate_payload: the required fields the payload lacks (it raises iff there is one)
validate_payload(a, payload) ==
    IF ~HasSchema(a) THEN {}
    ELSE {f[1] : f \in {g \in PayloadSchema(a) : g[2] /\ g[1] \notin DOMAIN payload}}

RegisteredSources == {"telegram", "cli", "voice"}

\* SOURCE_PERMISSIONS
SourcePermissions(src) ==
    CASE src = "telegram" -> Actions
      [] src = "cli" -> Actions
      [] src = "voice" -> ReadOnlyActions
      [] OTHER -> {}

\* a permission check that lets a source without an entry through
validate_source_permission_default_allow(src, a) ==
    src \notin RegisteredSources \/ a \in SourcePermissions(src)

\* validate_source_permission: TRUE when it returns, FALSE when it raises
validate_source_permission(src, a) == src \in RegisteredSources /\ a \in SourcePermissions(src)

(***************************************************************************)
(* config.ALLOWED_USER_IDS, split at its commas: a sequence of tokens, each *)
(* a user id ("" for none) with or without blanks around it.               *)
(***************************************************************************)
Tok(uid, pad) == [uid |-> uid, pad |-> pad]

OpenConfig == <<Tok("", FALSE)>>

\* router._is_user_allowed(user_id)
is_user_allowed(raw, user_id) ==
    IF Len(raw) = 1 /\ raw[1].uid = "" THEN TRUE
    ELSE user_id \in {raw[i].uid : i \in {j \in 1..Len(raw) : raw[j].uid # ""}}

(***************************************************************************)
(* State and observations.                                                 *)
(*   store, reports, audit : the three files                               *)
(*   processed : FailureAnalyzer._processed_dds_ids of the worker          *)
(*   clock     : the last reading of datetime.now(), in microsecond ticks  *)
(*   effects   : how often the external tool was invoked / a sandbox file  *)
(*               written, per proposal id (counted up to EffectCap)        *)
(*   config    : config.ALLOWED_USER_IDS                                   *)
(*   ret       : what the last call was given and what it returned or      *)
(*               raised                                                    *)
(***************************************************************************)
EffectCap == 2

PhantomId == [k |-> "pre", n |-> 0]

IdsOf(st) == {st[i].id : i \in 1..Len(st)}

CallIds == IdsOf(store) \cup {PhantomId}

EffectCount(e, id) == IF id \in DOMAIN e THEN e[id] ELSE 0

AddEffect(e, id) ==
    [x \in DOMAIN e \cup {id} |->
        IF x = id THEN (IF EffectCount(e, id) < EffectCap THEN EffectCount(e, id) + 1 ELSE EffectCap)
        ELSE e[x]]

NoSummary == [status |-> "", executed |-> 0, failed |-> 0, failed_dds |-> NoId]

Request(a, src, uid, payload) == [action |-> a, source |-> src, user_id |-> uid, payload |-> payload]

NoRequest == Request("", "", "", <<>>)

\* the observation of one call: op and id name the call, out/err its result,
\* attempted the ids passed to the engine, effected the ids with an execution
\* effect, summary what Scheduler.run returned; for a dispatch, req is the
\* request, handler the handler invoked ("" for none), level the audit level,
\* action, audit_id and read_only the fields of the ContractResponse returned
\* ("none" for the action None, -1 for no response), raised whether the handler
\* raised; for a direct call of execute_code_change, tool_run is the run of the tool
Ret(op, id, out, err, attempted, effected, summary) ==
    [op |-> op, id |-> id, out |-> out, err |-> err, attempted |-> attempted,
     effected |-> effected, summary |-> summary, req |-> NoRequest, handler |-> "", level |-> "",
     action |-> "", audit_id |-> -1, raised |-> FALSE, read_only |-> TRUE,
     tool_run |-> NoToolRun]

Proposal(id, status, t) ==
    [id |-> id, status |-> status, type |-> t.type, exec |-> t.exec, paths |-> t.paths,
     cons |-> t.cons, tpath |-> t.tpath, content |-> t.content, last |-> "none", source |-> NoId,
     errctx |-> NoErrorContext]

CodeChange(exec, paths) ==
    [type |-> "code_change", exec |-> exec, paths |-> paths,
     cons |-> Cons(1, TRUE, TRUE), tpath |-> NoPath, content |-> FALSE]

\* the kinds of proposal a proposer writes into the store
Templates ==
    { CodeChange("ok", <<Rel(<<"src">>)>>),
      [type |-> "touch_file", exec |-> "ok", paths |-> <<Rel(<<>>)>>,
       cons |-> NoCons, tpath |-> Rel(<<"f.txt">>), content |-> TRUE],
      [type |-> "noop", exec |-> "ok", paths |-> <<Rel(<<>>)>>,
       cons |-> NoCons, tpath |-> NoPath, content |-> FALSE] }

Init ==
    /\ store = <<>>
    /\ reports = <<>>
    /\ audit = <<>>
    /\ processed = {}
    /\ clock = 0
    /\ effects = <<>>
    /\ config = OpenConfig
    /\ ret = Ret("init", NoId, "", "", <<>>, <<>>, NoSummary)

\* a proposer appends a raw record to dds.json, under an id not yet in use
\* (scripts/verify_fixes.py writes its test proposals this way)
inject_dds(id, status, t) ==
    /\ id \notin IdsOf(store)
    /\ store' = Append(store, Proposal(id, status, t))
    /\ ret' = Ret("inject", id, "ok", "", <<>>, <<>>, NoSummary)
    /\ UNCHANGED <<reports, audit, processed, clock, effects, config>>

\* DDSRegistry.approve(id) called directly
RegistryApprove(id) ==
    /\ \E r \in {approve(store, id)} :
        /\ store' = r[1]
        /\ ret' = Ret("approve", id, IF r[2] THEN "ok" ELSE "not_found", "", <<>>, <<>>, NoSummary)
    /\ UNCHANGED <<reports, audit, processed, clock, effects, config>>

\* DDSRegistry.reject(id) called directly
RegistryReject(id) ==
    /\ \E r \in {reject(store, id)} :
        /\ store' = r[1]
        /\ ret' = Ret("reject", id, IF r[2] THEN "ok" ELSE "not_found", "", <<>>, <<>>, NoSummary)
    /\ UNCHANGED <<reports, audit, processed, clock, effects, config>>

\* the state change and observation common to the three execute_* entry points
ExecutedWith(op, id, r, tool_run) ==
    /\ Len(r.rp) <= MaxReports
    /\ store' = r.st
    /\ reports' = r.rp
    /\ effects' = IF r.effect THEN AddEffect(effects, id) ELSE effects
    /\ ret' = [Ret(op, id, r.out, r.err, <<id>>, IF r.effect THEN <<id>> ELSE <<>>, NoSummary)
                   EXCEPT !.tool_run = tool_run]
    /\ UNCHANGED <<audit, processed, clock, config>>

Executed(op, id, r) == ExecutedWith(op, id, r, NoToolRun)

\* Programmer.execute_code_change(id) called directly, the tool running as one of runs
execute_code_change_with(id, runs) ==
    \E after \in runs :
        \E r \in {execute_code_change(store, reports, id, after)} :
            ExecutedWith("execute_code_change", id, r, after)

\* Programmer.execute_code_change(id) called directly
ProgExecuteCodeChange(id) == execute_code_change_with(id, ToolRuns)

\* Programmer.execute_touch_file(id) called directly
ProgExecuteTouchFile(id) ==
    \E r \in {execute_touch_file(store, reports, id)} : Executed("execute_touch_file", id, r)

\* Programmer.execute_noop(id) called directly
ProgExecuteNoop(id) ==
    \E r \in {execute_noop(store, reports, id)} : Executed("execute_noop", id, r)

(***************************************************************************)
(* Scheduler (node_scheduler/scheduler.py)                                 *)
(***************************************************************************)
\* list.sort(key=lambda p: p.id): a stable insertion into ascending id order
RECURSIVE InsertById(_, _)
InsertById(p, sorted) ==
    IF sorted = <<>> THEN <<p>>
    ELSE IF IdLess(p.id, Head(sorted).id) THEN <<p>> \o sorted
    ELSE <<Head(sorted)>> \o InsertById(p, Tail(sorted))

RECURSIVE SortById(_)
SortById(seq) ==
    IF seq = <<>> THEN <<>>
    ELSE InsertById(seq[Len(seq)], SortById(SubSeq(seq, 1, Len(seq) - 1)))

RECURSIVE SelectApproved(_)
SelectApproved(st) ==
    IF st = <<>> THEN <<>>
    ELSE (IF Head(st).status = "approved" THEN <<Head(st)>> ELSE <<>>) \o SelectApproved(Tail(st))

\* the approved proposals in the order of the store
get_approved_unsorted(st) == SelectApproved(st)

\* Scheduler._get_approved_dds: the approved proposals, sorted by id
get_approved_dds(st) == SortById(SelectApproved(st))

\* Scheduler._mark_executed(dds_id)
mark_executed(st, id) == IF HasId(st, id) THEN SetStatus(st, id, "executed") ELSE save_proposals(st)

\* a marking whose write is lost: the store keeps the status it had
mark_failed_keeps_status(st, id) == save_proposals(st)

\* Scheduler._mark_failed(dds_id)
mark_failed(st, id) == IF HasId(st, id) THEN SetStatus(st, id, "failed") ELSE save_proposals(st)

RunResult(st, rp, attempted, effected, summary) ==
    [st |-> st, rp |-> rp, attempted |-> attempted, effected |-> effected, summary |-> summary]

\* the for loop of Scheduler.run over the approved proposals still to execute;
\* afters[k] is what the tool leaves behind in the k-th execution
RECURSIVE run_loop(_, _, _, _, _, _, _, _)
run_loop(st, rp, todo, afters, k, executed, attempted, effected) ==
    IF todo = <<>>
    THEN RunResult(st, rp, attempted, effected,
                   [status |-> "completed", executed |-> executed, failed |-> 0, failed_dds |-> NoId])
    ELSE LET id == Head(todo).id
             r == execute_code_change(st, rp, id, afters[k])
             att == Append(attempted, id)
             eff == IF r.effect THEN Append(effected, id) ELSE effected
         IN IF r.out = "success"
            THEN run_loop(mark_executed(r.st, id), r.rp, Tail(todo), afters, k + 1,
                          executed + 1, att, eff)
            ELSE RunResult(mark_failed(r.st, id), r.rp, att, eff,
                           [status |-> "stopped_on_error", executed |-> executed,
                            failed |-> 1, failed_dds |-> id])

\* Scheduler.run()
run(st, rp, afters) ==
    IF get_approved_dds(st) = <<>>
    THEN RunResult(st, rp, <<>>, <<>>,
                   [status |-> "completed", executed |-> 0, failed |-> 0, failed_dds |-> NoId])
    ELSE run_loop(st, rp, get_approved_dds(st), afters, 1, 0, <<>>, <<>>)

RECURSIVE AddEffects(_, _)
AddEffects(e, ids) == IF ids = <<>> THEN e ELSE AddEffects(AddEffect(e, Head(ids)), Tail(ids))

SchedulerRun ==
    \E afters \in [1..Len(get_approved_dds(store)) -> ToolRuns] :
        \E r \in {run(store, reports, afters)} :
           /\ Len(r.rp) <= MaxReports
           /\ store' = r.st
           /\ reports' = r.rp
           /\ effects' = AddEffects(effects, r.effected)
           /\ ret' = Ret("scheduler_run", NoId, r.summary.status, "", r.attempted, r.effected, r.summary)
           /\ UNCHANGED <<audit, processed, clock, config>>

(***************************************************************************)
(* Failure -> fix pipeline (node_worker)                                   *)
(***************************************************************************)
\* the text of a report's notes, word by word; the notes the engine writes are
\* kept as one word
Words(notes) ==
    CASE notes = "Timeout: execution exceeded 300s limit" ->
            <<"Timeout:", "execution", "exceeded", "300s", "limit">>
      [] notes = "Aider command not found" -> <<"Aider", "command", "not", "found">>
      [] notes = "NameError: name 'logger' is not defined" ->
            <<"NameError:", "name", "'logger'", "is", "not", "defined">>
      [] notes = "Missing or invalid required field: instructions" ->
            <<"Missing", "or", "invalid", "required", "field:", "instructions">>
      [] OTHER -> <<notes>>

\* str.lower() of a word
Lower(w) ==
    CASE w = "Timeout:" -> "timeout:"
      [] w = "Aider" -> "aider"
      [] w = "NameError:" -> "nameerror:"
      [] w = "Missing" -> "missing"
      [] OTHER -> w

\* pattern in word: the words that hold a pattern as a substring
HoldsWord(w, pat) ==
    \/ w = pat
    \/ pat = "timeout" /\ w = "timeout:"
    \/ pat = "503" /\ w = "503:"

\* FailureAnalyzer._UNFIXABLE_PATTERNS, word by word
UnfixablePatterns ==
    { <<"timeout">>, <<"timed", "out">>, <<"rate", "limit">>, <<"connection", "refused">>,
      <<"503">>, <<"command", "not", "found">>, <<"aider:", "not", "found">> }

\* pattern in msg_lower
Contains(ws, pat) ==
    \E i \in 1..(Len(ws) - Len(pat) + 1) : \A j \in 1..Len(pat) : HoldsWord(ws[i + j - 1], pat[j])

\* a filter that compares the notes as they are written
is_unfixable_error_case_sensitive(notes) ==
    \E pat \in UnfixablePatterns : Contains(Words(notes), pat)

\* FailureAnalyzer._is_unfixable_error
is_unfixable_error(notes) ==
    LET msg_lower == [i \in 1..Len(Words(notes)) |-> Lower(Words(notes)[i])]
    IN \E pat \in UnfixablePatterns : Contains(msg_lower, pat)

Qualifies(entry, proc) ==
    /\ entry.status = "failed"
    /\ entry.action_type \in {"code_change", "code_fix"}
    /\ entry.dds_id \notin proc
    /\ ~is_unfixable_error(entry.notes)

\* for entry in reversed(executions), from entry i down: the index of the first
\* entry no continue skips, 0 when the loop runs out
RECURSIVE scan_reversed(_, _, _)
scan_reversed(rp, proc, i) ==
    IF i = 0 THEN 0
    ELSE IF rp[i].status # "failed" THEN scan_reversed(rp, proc, i - 1)
    ELSE IF rp[i].action_type \notin {"code_change", "code_fix"} THEN scan_reversed(rp, proc, i - 1)
    ELSE IF rp[i].dds_id \in proc THEN scan_reversed(rp, proc, i - 1)
    ELSE IF is_unfixable_error(rp[i].notes) THEN scan_reversed(rp, proc, i - 1)
    ELSE i

\* a scan that stops at the first failed entry of the log in append order
get_latest_failure_earliest(rp, proc) ==
    IF \E i \in 1..Len(rp) : Qualifies(rp[i], proc)
    THEN CHOOSE i \in 1..Len(rp) : Qualifies(rp[i], proc) /\ \A j \in 1..(i - 1) : ~Qualifies(rp[j], proc)
    ELSE 0

\* FailureAnalyzer.get_latest_failure: the index of the entry returned, 0 for None
get_latest_failure(rp, proc) ==
    scan_reversed(rp, proc, Len(rp))

\* the failure_info dict get_latest_failure returns for an entry
FailureInfo(entry) == [dds_id |-> entry.dds_id, error_message |-> entry.notes]

\* str(a) is a prefix of str(b), for positive numbers written in decimal
RECURSIVE DecimalPrefix(_, _)
DecimalPrefix(a, b) == a = b \/ (b >= 10 /\ DecimalPrefix(a, b \div 10))

\* s in t for the strings of two ids: "DDS-TEST1" in "DDS-TEST10", and the id
\* of a second in the ids of its microseconds
IdInText(s, t) ==
    \/ s = t
    \/ s.k = "pre" /\ t.k = "pre" /\ DecimalPrefix(s.n, t.n)
    \/ s.k = "reg" /\ t.k = "new" /\ s.n = t.n \div TicksPerSecond

\* source_dds_id in (proposal.title or ''): the title of a fix is its goal,
\* "Fix execution failure in <source id>: <error>"
TitleMentions(p, id) == p.type = "code_fix" /\ IdInText(id, p.source)

\* a duplicate check that counts approved fixes only
code_fix_exists_approved_only(st, id) ==
    \E i \in 1..Len(st) : st[i].source = id /\ st[i].type = "code_fix" /\ st[i].status = "approved"

\* ReactiveWorker._code_fix_exists
code_fix_exists(st, id) ==
    \E i \in 1..Len(st) :
        \/ st[i].source = id /\ st[i].type = "code_fix"
        \/ st[i].type = "code_fix" /\ TitleMentions(st[i], id)

FixCeiling == 3

DefaultMaxFiles == 5

Min(a, b) == IF a < b THEN a ELSE b

\* a generator that hands the fix the approval of the proposal it repairs
generate_fix_dds_approved(failed, info, t) ==
    [id |-> FixId(t), status |-> "approved", type |-> "code_fix", exec |-> "ok",
     paths |-> IF failed.paths = <<>> THEN <<Rel(<<"src">>), Rel(<<"tests">>)>> ELSE failed.paths,
     cons |-> Cons(Min(IF failed.cons.present /\ ~failed.cons.legacy /\ failed.cons.max >= 0
                       THEN failed.cons.max ELSE DefaultMaxFiles, FixCeiling), TRUE, TRUE),
     tpath |-> NoPath, content |-> FALSE, last |-> "none", source |-> info.dds_id,
     errctx |-> [original_dds |-> info.dds_id, error_message |-> info.error_message]]

\* FixDDSGenerator.generate_fix_dds(failed_dds, failure_info) at clock reading t,
\* as _save_code_fix stores it; original_constraints.get('max_files_changed', 5)
\* does not look at the key max_files
generate_fix_dds(failed, info, t) ==
    [id |-> FixId(t), status |-> "proposed", type |-> "code_fix", exec |-> "ok",
     paths |-> IF failed.paths = <<>> THEN <<Rel(<<"src">>), Rel(<<"tests">>)>> ELSE failed.paths,
     cons |-> Cons(Min(IF failed.cons.present /\ ~failed.cons.legacy /\ failed.cons.max >= 0
                       THEN failed.cons.max ELSE DefaultMaxFiles, FixCeiling), TRUE, TRUE),
     tpath |-> NoPath, content |-> FALSE, last |-> "none", source |-> info.dds_id,
     errctx |-> [original_dds |-> info.dds_id, error_message |-> info.error_message]]

\* ReactiveWorker.run() with room for store_limit proposals and a clock that
\* reads at most last_tick
worker_run(store_limit, last_tick) ==
    LET f == get_latest_failure(reports, processed)
        failed_id == reports[f].dds_id
    IN IF f = 0
       THEN /\ ret' = Ret("worker_run", NoId, "no_failures", "", <<>>, <<>>, NoSummary)
            /\ UNCHANGED <<store, reports, audit, processed, clock, effects, config>>
       ELSE IF code_fix_exists(store, failed_id)
       THEN /\ ret' = Ret("worker_run", failed_id, "no_failures", "exists", <<>>, <<>>, NoSummary)
            /\ UNCHANGED <<store, reports, audit, processed, clock, effects, config>>
       ELSE IF ~HasId(store, failed_id)
       THEN /\ ret' = Ret("worker_run", failed_id, "stopped_on_error", "not_found", <<>>, <<>>, NoSummary)
            /\ UNCHANGED <<store, reports, audit, processed, clock, effects, config>>
       ELSE \E t \in (clock + 1)..last_tick :
            /\ Len(store) < store_limit
            /\ clock' = t
            /\ store' = add_proposal(store,
                   generate_fix_dds(from_dict_to_dict(store[FirstIndex(store, failed_id)]),
                                    FailureInfo(reports[f]), t))
            /\ processed' = processed \cup {failed_id}
            /\ ret' = Ret("worker_run", failed_id, "completed", "", <<>>, <<>>, NoSummary)
            /\ UNCHANGED <<reports, audit, effects, config>>

\* ReactiveWorker.run()
WorkerRun == worker_run(MaxStore, MaxClock)

\* ReactiveWorker(): a new worker starts with an analyzer that has processed nothing
NewWorker ==
    /\ processed # {}
    /\ processed' = {}
    /\ ret' = Ret("new_worker", NoId, "ok", "", <<>>, <<>>, NoSummary)
    /\ UNCHANGED <<store, reports, audit, clock, effects, config>>

(***************************************************************************)
(* Router (node_interface/router.py)                                       *)
(***************************************************************************)
\* the category tag _handle_execute puts on a ProgrammerError, from its text
Category(err) ==
    CASE err \in {"already_executed", "not_found_or_not_approved", "not_found_in_registry"} -> "dds_error"
      [] err \in {"invalid_version", "invalid_type", "missing_instructions", "missing_allowed_paths",
                  "missing_constraints", "missing_path", "missing_content"} -> "dds_error"
      [] OTHER -> "exec_error"

HRes(st, rp, out, err, entry, effect) ==
    [st |-> st, rp |-> rp, out |-> out, err |-> err, entry |-> entry, effect |-> effect]

\* Router._handle_execute(payload)
handle_execute(st, rp, id, after) ==
    IF ~HasId(st, id) THEN HRes(st, rp, "raise", "not_found_in_registry", "", FALSE)
    ELSE IF st[FirstIndex(st, id)].status # "approved"
    THEN HRes(st, rp, "raise", "not_found_or_not_approved", "", FALSE)
    ELSE LET action_type == IF st[FirstIndex(st, id)].type = "none" THEN "noop"
                            ELSE st[FirstIndex(st, id)].type
             entry == CASE action_type \in {"code_change", "code_fix"} -> "execute_code_change"
                        [] action_type = "touch_file" -> "execute_touch_file"
                        [] action_type = "noop" -> "execute_noop"
                        [] OTHER -> ""
             r == CASE entry = "execute_code_change" -> execute_code_change(st, rp, id, after)
                    [] entry = "execute_touch_file" -> execute_touch_file(st, rp, id)
                    [] entry = "execute_noop" -> execute_noop(st, rp, id)
                    [] OTHER -> Res(st, rp, "raise", "unsupported_type", FALSE)
         IN HRes(r.st, r.rp, IF r.out = "raise" THEN "raise" ELSE "ok", r.err, entry, r.effect)

\* DDSProposal(id, project, title, description, created_at, status="proposed"):
\* the core fields only
SimpleProposal(id) ==
    [id |-> id, status |-> "proposed", type |-> "none", exec |-> "absent",
     paths |-> <<>>, cons |-> NoCons, tpath |-> NoPath, content |-> FALSE,
     last |-> "none", source |-> NoId, errctx |-> NoErrorContext]

\* Router._handle_dds_new(payload) at clock reading t
handle_dds_new(st, t) == add_proposal(st, SimpleProposal(NewId(t)))

\* the handlers that work on the proposal store and the report log; the others
\* read mail, projects and todos, and return a message or raise
StoreHandlers == {"execute", "dds_new", "dds_approve", "dds_reject", "dds_list",
                  "dds_list_proposed", "exec_status"}

\* the handler the dispatch table gives for an action, applied to the payload;
\* o is the outcome ("ok" or "raise") of a handler outside StoreHandlers
Handle(a, payload, st, rp, after, t, o) ==
    CASE a = "execute" -> handle_execute(st, rp, payload["dds_id"], after)
      [] a = "dds_new" -> HRes(handle_dds_new(st, t), rp, "ok", "", "", FALSE)
      [] a = "dds_approve" -> HRes(approve(st, payload["proposal_id"])[1], rp, "ok",
                                   IF approve(st, payload["proposal_id"])[2] THEN "" ELSE "no_encontrado",
                                   "", FALSE)
      [] a = "dds_reject" -> HRes(reject(st, payload["proposal_id"])[1], rp, "ok",
                                  IF reject(st, payload["proposal_id"])[2] THEN "" ELSE "no_encontrado",
                                  "", FALSE)
      [] a \in StoreHandlers -> HRes(st, rp, "ok", "", "", FALSE)
      [] OTHER -> HRes(st, rp, o, IF o = "raise" THEN "handler_failure" ELSE "", "", FALSE)

TraceableKeys == {"dds_id", "proposal_id", "todo_id", "name", "project"}

\* _extract_payload_summary
extract_payload_summary(payload) == [k \in DOMAIN payload \cap TraceableKeys |-> payload[k]]

\* the line _persist_audit appends
AuditEntry(req, audit_id, level, status, read_only, detail) ==
    [audit_id |-> audit_id, source |-> req.source, user_id |-> req.user_id, action |-> req.action,
     level |-> level, payload_summary |-> extract_payload_summary(req.payload),
     status |-> status, read_only |-> read_only, error_detail |-> detail]

Detail(kind, info) == [kind |-> kind, info |-> info]

PayloadId(payload) ==
    IF "dds_id" \in DOMAIN payload THEN payload["dds_id"]
    ELSE IF "proposal_id" \in DOMAIN payload THEN payload["proposal_id"]
    ELSE NoId

\* what dispatch leaves behind when one of the guards rejects the request
GuardReject(req, kind, info) ==
    /\ audit' = Append(audit, AuditEntry(req, clock, "guard_reject", "error",
                                         IF req.action \in Actions THEN is_read_only(req.action) ELSE TRUE,
                                         Detail(kind, info)))
    /\ ret' = [Ret("dispatch", PayloadId(req.payload), "error", kind, <<>>, <<>>, NoSummary)
                   EXCEPT !.req = req, !.level = "guard_reject", !.audit_id = clock,
                          !.action = IF req.action \in Actions THEN req.action ELSE "none",
                          !.read_only = IF req.action \in Actions THEN is_read_only(req.action)
                                        ELSE TRUE]
    /\ UNCHANGED <<store, reports, processed, clock, effects, config>>

\* an audit level that takes every completed request for a decision
audit_level_decision_on_ok(a, status) ==
    IF status = "ok" THEN "decision" ELSE "error"

\* step 7 of dispatch: the level of the audit entry of a request that reached its handler
audit_level(a, status) ==
    IF is_write(a) /\ status = "ok" THEN "decision"
    ELSE IF status = "error" THEN "error" ELSE "info"

\* an error detail that drops the text of the exception
handler_error_detail_type_only(a, err) == Detail("handler_exception", [type |-> "Exception", tag |-> ""])

\* step 6 of dispatch: error_detail of a handler exception, its type and the head
\* of its text; _handle_execute puts the category tag at the head of the text of
\* the ProgrammerError it raises, the other handlers raise untagged exceptions
handler_error_detail(a, err) ==
    Detail("handler_exception",
           IF a = "execute" THEN [type |-> "ProgrammerError", tag |-> Category(err)]
           ELSE [type |-> "Exception", tag |-> ""])

\* steps 5-7 of dispatch: the handler runs, its exception is caught, the audit is written
RunHandler(req) ==
    \E after \in (IF req.action = "execute" THEN ToolRuns ELSE {NoToolRun}),
       t \in (IF req.action = "dds_new" THEN (clock + 1)..MaxClock ELSE {clock}),
       o \in (IF req.action \in StoreHandlers THEN {"ok"} ELSE {"ok", "raise"}) :
        \E h \in {Handle(req.action, req.payload, store, reports, after, t, o)} :
            LET status == IF h.out = "raise" THEN "error" ELSE "ok"
                level == audit_level(req.action, status)
                detail == IF h.out = "raise" THEN handler_error_detail(req.action, h.err)
                          ELSE Detail("", "")
                id == PayloadId(req.payload)
            IN /\ Len(h.st) <= MaxStore
               /\ Len(h.rp) <= MaxReports
               /\ store' = h.st
               /\ reports' = h.rp
               /\ clock' = t
               /\ effects' = IF h.effect THEN AddEffect(effects, id) ELSE effects
               /\ audit' = Append(audit, AuditEntry(req, t, level, status,
                                                    is_read_only(req.action), detail))
               /\ ret' = [Ret("dispatch", id, status, h.err,
                              IF h.entry # "" THEN <<id>> ELSE <<>>,
                              IF h.effect THEN <<id>> ELSE <<>>, NoSummary)
                              EXCEPT !.req = req, !.handler = req.action, !.level = level,
                                     !.action = req.action, !.audit_id = t,
                                     !.raised = (h.out = "raise"),
                                     !.read_only = is_read_only(req.action)]
               /\ UNCHANGED <<processed, config>>

\* Router.dispatch(request)
dispatch(req) ==
    IF req.action = "plain_string"
    THEN /\ ret' = [Ret("dispatch", PayloadId(req.payload), "raise", "AttributeError", <<>>, <<>>,
                        NoSummary) EXCEPT !.req = req]
         /\ UNCHANGED <<store, reports, audit, processed, clock, effects, config>>
    ELSE IF req.action \notin Actions THEN GuardReject(req, "action_not_in_whitelist", "")
    ELSE IF ~is_user_allowed(config, req.user_id) THEN GuardReject(req, "user_not_allowed", req.user_id)
    ELSE IF ~validate_source_permission(req.source, req.action)
    THEN GuardReject(req, "source_denied", req.source)
    ELSE IF validate_payload(req.action, req.payload) # {}
    THEN GuardReject(req, "payload_invalid", "")
    ELSE RunHandler(req)


(***************************************************************************)
(* The proposal lifecycle driven by an operator: proposals are written,    *)
(* approved, rejected and executed through every entry point.              *)
(***************************************************************************)
ExecuteRequest(id) == Request("execute", "cli", "u1", [k \in {"dds_id"} |-> id])

DispatchExecute(id) == Len(audit) < MaxAudit /\ dispatch(ExecuteRequest(id))

InjectNext ==
    /\ Len(store) < MaxProposals
    /\ \E s \in {"proposed", "approved"}, t \in Templates :
           inject_dds([k |-> "pre", n |-> Len(store) + 1], s, t)

Next ==
    \/ InjectNext
    \/ \E id \in IdsOf(store) : RegistryApprove(id)
    \/ \E id \in IdsOf(store) : RegistryReject(id)
    \/ \E id \in CallIds : DispatchExecute(id)
    \/ SchedulerRun

Spec == Init /\ [][Next]_vars


(***************************************************************************)
(* The execution engine reached through each of its entry points.         *)
(***************************************************************************)
InjectEngine ==
    /\ Len(store) < MaxEngineProposals
    /\ \E s \in {"proposed", "approved"}, t \in Templates :
           inject_dds([k |-> "pre", n |-> Len(store) + 1], s, t)

NextEngine ==
    \/ InjectEngine
    \/ \E id \in IdsOf(store) : RegistryApprove(id)
    \/ \E id \in IdsOf(store) : RegistryReject(id)
    \/ \E id \in CallIds : ProgExecuteCodeChange(id)
    \/ \E id \in CallIds : ProgExecuteTouchFile(id)
    \/ \E id \in CallIds : ProgExecuteNoop(id)
    \/ \E id \in CallIds : DispatchExecute(id)
    \/ SchedulerRun

SpecEngine == Init /\ [][NextEngine]_vars

(***************************************************************************)
(* The scheduler over stores written in any order of the ids.              *)
(***************************************************************************)
SchedTemplates ==
    { CodeChange("ok", <<Rel(<<"src">>)>>),
      [type |-> "noop", exec |-> "ok", paths |-> <<Rel(<<>>)>>,
       cons |-> NoCons, tpath |-> NoPath, content |-> FALSE] }

InjectSched ==
    /\ Len(store) < MaxSchedProposals
    /\ \E id \in PresetIds, s \in {"proposed", "approved"}, t \in SchedTemplates : inject_dds(id, s, t)

NextSched ==
    \/ InjectSched
    \/ \E id \in IdsOf(store) : RegistryApprove(id)
    \/ SchedulerRun

SpecSched == Init /\ [][NextSched]_vars

(***************************************************************************)
(* Code changes whose allowed paths are written by the proposer.           *)
(***************************************************************************)
PathPool ==
    { Rel(<<"src">>), Rel(<<"src", "..", "src">>), Rel(<<"..", "etc">>), Rel(<<"missing">>),
      Abs(<<"etc">>), Abs(<<"ws", "src">>), Abs(<<"ws", "empty">>) }

PathLists == UNION {[1..n -> PathPool] : n \in 1..MaxPathsLen}

PathTemplates ==
    {CodeChange("ok", paths) : paths \in PathLists}
    \cup {CodeChange(e, <<Rel(<<"src">>)>>) : e \in {"no_instructions", "project_missing"}}

InjectPaths ==
    /\ Len(store) < MaxEngineProposals
    /\ \E t \in PathTemplates : inject_dds([k |-> "pre", n |-> Len(store) + 1], "approved", t)

NextPaths ==
    \/ InjectPaths
    \/ \E id \in IdsOf(store) : ProgExecuteCodeChange(id)
    \/ \E id \in IdsOf(store) : DispatchExecute(id)
    \/ SchedulerRun

SpecPaths == Init /\ [][NextPaths]_vars

(***************************************************************************)
(* Failures and the fixes proposed for them.                               *)
(***************************************************************************)
WorkerTemplates == {CodeChange("ok", <<Rel(<<"src">>)>>)}

InjectWorker ==
    /\ Len(store) < MaxProposals
    /\ \E s \in {"proposed", "approved"}, t \in WorkerTemplates :
           inject_dds([k |-> "pre", n |-> Len(store) + 1], s, t)

ApproveRequest(id) == Request("dds_approve", "cli", "u1", [k \in {"proposal_id"} |-> id])

DispatchApprove(id) == Len(audit) < MaxAudit /\ dispatch(ApproveRequest(id))

NextWorker ==
    \/ InjectWorker
    \/ \E id \in IdsOf(store) : RegistryApprove(id)
    \/ \E id \in IdsOf(store) : DispatchApprove(id)
    \/ \E id \in IdsOf(store) : ProgExecuteCodeChange(id)
    \/ SchedulerRun
    \/ WorkerRun

SpecWorker == Init /\ [][NextWorker]_vars

(***************************************************************************)
(* Requests of every shape sent to dispatch.                               *)
(***************************************************************************)
Sources == {"telegram", "cli", "voice", "unknown", ""}

Users == {"u1", "u2"}

Configs == {OpenConfig, <<Tok("u1", FALSE)>>}

IdKeys == {"dds_id", "proposal_id"}

\* the value of a payload field that holds no proposal id
Text == [k |-> "text", n |-> 0]

\* the fields the schema of an action declares
Fields(a) == {f[1] : f \in PayloadSchema(a)}

\* the payloads sent for an action: any of its declared fields, and a key the
\* schema does not know
Payloads(a) ==
    UNION {{p \in [K -> CallIds \cup {Text}] : \A k \in K : (p[k] \in CallIds) <=> (k \in IdKeys)}
            : K \in SUBSET (Fields(a) \cup {"extra"})}

AllRequests ==
    UNION {{Request(a, src, uid, p) : src \in Sources, uid \in Users, p \in Payloads(a)}
            : a \in Actions \cup ForeignActions}

InitDispatch ==
    /\ store = <<>>
    /\ reports = <<>>
    /\ audit = <<>>
    /\ processed = {}
    /\ clock = 0
    /\ effects = <<>>
    /\ config \in Configs
    /\ ret = Ret("init", NoId, "", "", <<>>, <<>>, NoSummary)

NextDispatch ==
    \/ InjectEngine
    \/ \E req \in AllRequests : Len(audit) < MaxDispatch /\ dispatch(req)

SpecDispatch == InitDispatch /\ [][NextDispatch]_vars

(***************************************************************************)
(* The failure -> fix pipeline over every report log: the proposals and   *)
(* the log are what the engine and the scripts left behind                *)
(* (scripts/verify_fixes.py inject_dds, inject_failed_report), and        *)
(* workers, the running one or a new one, are run against them.           *)
(***************************************************************************)
PipelineIds == {[k |-> "pre", n |-> 1], [k |-> "pre", n |-> 2]}

PipelineCons == {Cons(1, TRUE, TRUE), Cons(5, FALSE, FALSE), LegacyCons(1, FALSE, FALSE), NoCons}

PipelineProposal(n, cons) ==
    Proposal([k |-> "pre", n |-> n], "failed",
             [CodeChange("ok", <<Rel(<<"src">>)>>) EXCEPT !.cons = cons])

PipelineStoresOf(cons) ==
    {<<>>}
    \cup {<<PipelineProposal(1, c)>> : c \in cons}
    \cup {<<PipelineProposal(1, c), PipelineProposal(2, Cons(2, TRUE, TRUE))>> : c \in cons}

PipelineStores == PipelineStoresOf(PipelineCons)

FixableNotes ==
    {"NameError: name 'logger' is not defined", "Missing or invalid required field: instructions"}

InfraNotes == {"Timeout: execution exceeded 300s limit", "Aider command not found"}

PipelineEntries ==
    {Report(id, "code_change", "failed", n) : id \in PipelineIds, n \in FixableNotes \cup InfraNotes}
    \cup {Report(id, "touch_file", "failed", "NameError: name 'logger' is not defined") : id \in PipelineIds}
    \cup {Report(id, "code_change", "success", "completed") : id \in PipelineIds}

PipelineLogs == UNION {[1..n -> PipelineEntries] : n \in 0..MaxLog}

InitPipeline ==
    /\ store \in PipelineStores
    /\ reports \in PipelineLogs
    /\ audit = <<>>
    /\ processed = {}
    /\ clock = 0
    /\ effects = <<>>
    /\ config = OpenConfig
    /\ ret = Ret("init", NoId, "", "", <<>>, <<>>, NoSummary)

PipelineWorkerRun == worker_run(MaxPipelineStore, MaxPipelineClock)

NextPipeline ==
    \/ PipelineWorkerRun
    \/ NewWorker

SpecPipeline == InitPipeline /\ [][NextPipeline]_vars

InitPipelineLive ==
    /\ InitPipeline
    /\ store \in PipelineStoresOf({Cons(1, TRUE, TRUE)})

\* the worker keeps being run
SpecPipelineLive == InitPipelineLive /\ [][NextPipeline]_vars /\ WF_vars(PipelineWorkerRun)

(***************************************************************************)
(* Proposals created through every path: written by a proposer under a    *)
(* preset id, created by dispatch(DDS_NEW), added to the registry without  *)
(* an id, drafted by the worker; they are approved and executed through    *)
(* dispatch.                                                               *)
(***************************************************************************)
InjectCreate ==
    /\ store = <<>>
    /\ \E t \in WorkerTemplates : inject_dds([k |-> "pre", n |-> 1], "approved", t)

\* DDSRegistry.add_proposal called with a proposal that has no id
RegistryAdd ==
    \E t \in (clock + 1)..MaxClock :
        /\ Len(store) < MaxStore
        /\ store' = add_proposal_without_id(store, SimpleProposal(NoId), t)
        /\ clock' = t
        /\ ret' = Ret("add_proposal", RegId(t), "ok", "", <<>>, <<>>, NoSummary)
        /\ UNCHANGED <<reports, audit, processed, effects, config>>

NewRequest ==
    Request("dds_new", "cli", "u1", [k \in {"project", "title", "description"} |-> Text])

CreateRequests ==
    {NewRequest} \cup {ApproveRequest(id) : id \in IdsOf(store)}
                 \cup {ExecuteRequest(id) : id \in IdsOf(store)}

DispatchCreate == \E req \in CreateRequests : Len(audit) < MaxCreateAudit /\ dispatch(req)

NextCreate ==
    \/ InjectCreate
    \/ RegistryAdd
    \/ DispatchCreate
    \/ SchedulerRun
    \/ WorkerRun

SpecCreate == Init /\ [][NextCreate]_vars

(***************************************************************************)
(* Code changes over every diff and every constraints record: one approved *)
(* proposal, and the tool ending in every way and leaving behind any       *)
(* selection of files.                                                     *)
(***************************************************************************)
ChangeFiles == {"a.py", "b.py", "c.py", "requirements.txt"}

\* a.py is kept, rewritten or deleted; any of the other files is created
ChangeSnapshots ==
    UNION {{[f \in created \cup keep |-> IF f = "a.py" THEN digest ELSE 1] : digest \in 1..2}
            : created \in SUBSET (ChangeFiles \ {"a.py"}), keep \in {{}, {"a.py"}}}

ChangeRuns == {ToolRun(o, files) : o \in ToolOutcomes, files \in ChangeSnapshots}

\* the declared maximum: none (-1), 0, 1 or MaxDeclared
ChangeCons ==
    {[Cons(m, d, r) EXCEPT !.legacy = l] :
        m \in {-1, 0, 1, MaxDeclared}, d \in BOOLEAN, r \in BOOLEAN, l \in BOOLEAN}

InitChange ==
    /\ store \in {<<Proposal([k |-> "pre", n |-> 1], "approved",
                              [CodeChange("ok", <<Rel(<<"src">>)>>) EXCEPT !.cons = c])>>
                    : c \in {x \in ChangeCons : x.max >= 0 \/ ~x.legacy}}
    /\ reports = <<>>
    /\ audit = <<>>
    /\ processed = {}
    /\ clock = 0
    /\ effects = <<>>
    /\ config = OpenConfig
    /\ ret = Ret("init", NoId, "", "", <<>>, <<>>, NoSummary)

\* the first execution of a proposal
NextChange ==
    \E id \in IdsOf(store) : ~is_already_executed(reports, id) /\ execute_code_change_with(id, ChangeRuns)

SpecChange == InitChange /\ [][NextChange]_vars

(***************************************************************************)
(* The failure analyzer on its own: one FailureAnalyzer is asked for the   *)
(* latest failure and told which ids are processed, over every report log  *)
(* of the bounds, while the engine keeps appending reports.                *)
(***************************************************************************)
MaxAnalyzerLog == 3

AnalyzerEntries ==
    {Report(id, t, "failed", "NameError: name 'logger' is not defined") :
        id \in PipelineIds, t \in {"code_change", "code_fix", "touch_file"}}
    \cup {Report(id, "code_change", "failed", "Timeout: execution exceeded 300s limit") : id \in PipelineIds}
    \cup {Report(id, "code_change", "success", "completed") : id \in PipelineIds}

InitAnalyzer ==
    /\ store = <<>>
    /\ reports \in UNION {[1..n -> AnalyzerEntries] : n \in 0..MaxLog}
    /\ audit = <<>>
    /\ processed = {}
    /\ clock = 0
    /\ effects = <<>>
    /\ config = OpenConfig
    /\ ret = Ret("init", NoId, "", "", <<>>, <<>>, NoSummary)

\* analyzer.get_latest_failure(): the dict returned, or None
AnalyzerGetLatestFailure ==
    LET f == get_latest_failure(reports, processed)
    IN /\ ret' = IF f = 0
                 THEN Ret("get_latest_failure", NoId, "none", "", <<>>, <<>>, NoSummary)
                 ELSE [Ret("get_latest_failure", reports[f].dds_id, "found", reports[f].notes,
                           <<>>, <<>>, NoSummary) EXCEPT !.action = reports[f].action_type]
       /\ UNCHANGED <<store, reports, audit, processed, clock, effects, config>>

\* analyzer.mark_processed(dds_id)
AnalyzerMarkProcessed(id) ==
    /\ processed' = processed \cup {id}
    /\ ret' = Ret("mark_processed", id, "ok", "", <<>>, <<>>, NoSummary)
    /\ UNCHANGED <<store, reports, audit, clock, effects, config>>

\* the engine's _save_execution_report between two calls of the analyzer
AnalyzerSaveReport(r) ==
    /\ Len(reports) < MaxAnalyzerLog
    /\ reports' = save_report(reports, r)
    /\ ret' = Ret("save_report", r.dds_id, "ok", "", <<>>, <<>>, NoSummary)
    /\ UNCHANGED <<store, audit, processed, clock, effects, config>>

NextAnalyzer ==
    \/ AnalyzerGetLatestFailure
    \/ \E id \in PipelineIds : AnalyzerMarkProcessed(id)
    \/ \E r \in AnalyzerEntries : AnalyzerSaveReport(r)

SpecAnalyzer == InitAnalyzer /\ [][NextAnalyzer]_vars

(***************************************************************************)
(* Two dispatch calls in flight at once. Each call goes through its log    *)
(* line and guards, its handler and its audit append as separate steps;    *)
(* ret.calls holds where each call stands and the response it has built.   *)
(***************************************************************************)
InterleaveId == [k |-> "pre", n |-> 1]

InterleaveRequests ==
    { ApproveRequest(InterleaveId), ExecuteRequest(InterleaveId),
      Request("dds_list", "cli", "u1", <<>>),
      Request("execute", "voice", "u1", [k \in {"dds_id"} |-> InterleaveId]),
      Request("plain_string", "cli", "u1", <<>>) }

NoResponse == [status |-> "", level |-> "", detail |-> Detail("", ""), audit_id |-> -1, read_only |-> TRUE]

Call(pc, req, resp) == [pc |-> pc, req |-> req, resp |-> resp]

InitInterleave ==
    /\ store \in {<<Proposal(InterleaveId, "proposed", t)>> : t \in Templates}
    /\ reports = <<>>
    /\ audit = <<>>
    /\ processed = {}
    /\ clock = 0
    /\ effects = <<>>
    /\ config = OpenConfig
    /\ ret \in {[op |-> "interleave", calls |-> <<Call("start", q1, NoResponse), Call("start", q2, NoResponse)>>]
                  : q1 \in InterleaveRequests, q2 \in InterleaveRequests}

\* an append that opens the file for writing instead of appending
persist_audit_truncating(log, entry) == <<entry>>

\* _persist_audit: open(AUDIT_FILE, "a") and one write of the entry's line
persist_audit(log, entry) == Append(log, entry)

\* the log line and guards 1-4 of call p
CallGuards(p) ==
    LET c == ret.calls[p]
        req == c.req
        kind == IF req.action \notin Actions THEN "action_not_in_whitelist"
                ELSE IF ~is_user_allowed(config, req.user_id) THEN "user_not_allowed"
                ELSE IF ~validate_source_permission(req.source, req.action) THEN "source_denied"
                ELSE IF validate_payload(req.action, req.payload) # {} THEN "payload_invalid"
                ELSE ""
    IN /\ c.pc = "start"
       /\ IF req.action = "plain_string"
          THEN /\ ret' = [ret EXCEPT !.calls[p].pc = "raised"]
               /\ UNCHANGED clock
          ELSE IF kind # ""
          THEN \E t \in clock..MaxClock :
                 /\ clock' = t
                 /\ ret' = [ret EXCEPT !.calls[p] =
                              Call("responded", req,
                                   [status |-> "error", level |-> "guard_reject",
                                    detail |-> Detail(kind, ""), audit_id |-> t,
                                    read_only |-> IF req.action \in Actions
                                                  THEN is_read_only(req.action) ELSE TRUE])]
          ELSE /\ ret' = [ret EXCEPT !.calls[p].pc = "guarded"]
               /\ UNCHANGED clock
       /\ UNCHANGED <<store, reports, audit, processed, effects, config>>

\* steps 5-6 of dispatch for call p: the handler runs on the files as they are
\* now and the response is built
CallHandler(p) ==
    LET c == ret.calls[p]
        req == c.req
    IN /\ c.pc = "guarded"
       /\ \E after \in (IF req.action = "execute" THEN ToolRuns ELSE {NoToolRun}),
             t \in clock..MaxClock :
            \E h \in {Handle(req.action, req.payload, store, reports, after, t, "ok")} :
                LET status == IF h.out = "raise" THEN "error" ELSE "ok"
                IN /\ store' = h.st
                   /\ reports' = h.rp
                   /\ clock' = t
                   /\ effects' = IF h.effect THEN AddEffect(effects, PayloadId(req.payload))
                                 ELSE effects
                   /\ ret' = [ret EXCEPT !.calls[p] =
                                Call("responded", req,
                                     [status |-> status, level |-> audit_level(req.action, status),
                                      detail |-> IF h.out = "raise"
                                                 THEN handler_error_detail(req.action, h.err)
                                                 ELSE Detail("", ""),
                                      audit_id |-> t, read_only |-> is_read_only(req.action)])]
       /\ UNCHANGED <<audit, processed, config>>

\* the entry _persist_audit builds from the request and the response of a call
EntryOf(c) ==
    AuditEntry(c.req, c.resp.audit_id, c.resp.level, c.resp.status, c.resp.read_only, c.resp.detail)

\* step 7 of dispatch for call p: _persist_audit
CallAudit(p) ==
    /\ ret.calls[p].pc = "responded"
    /\ audit' = persist_audit(audit, EntryOf(ret.calls[p]))
    /\ ret' = [ret EXCEPT !.calls[p].pc = "done"]
    /\ UNCHANGED <<store, reports, processed, clock, effects, config>>

NextInterleave ==
    \E p \in 1..2 :
        \/ CallGuards(p)
        \/ CallHandler(p)
        \/ CallAudit(p)

SpecInterleave == InitInterleave /\ [][NextInterleave]_vars

(***************************************************************************)
(* The pipeline over two proposals whose ids are "DDS-TEST1" and           *)
(* "DDS-TEST10": both failed, and workers are run against the log.         *)
(***************************************************************************)
TitleIds == {[k |-> "pre", n |-> 1], [k |-> "pre", n |-> 10]}

TitleEntries ==
    {Report(id, "code_change", "failed", n) : id \in TitleIds, n \in FixableNotes}
    \cup {Report(id, "code_change", "success", "completed") : id \in TitleIds}

InitTitles ==
    /\ store \in {<<PipelineProposal(1, c), PipelineProposal(10, c)>> : c \in PipelineCons}
    /\ reports \in UNION {[1..n -> TitleEntries] : n \in 0..MaxLog}
    /\ audit = <<>>
    /\ processed = {}
    /\ clock = 0
    /\ effects = <<>>
    /\ config = OpenConfig
    /\ ret = Ret("init", NoId, "", "", <<>>, <<>>, NoSummary)

SpecTitles == InitTitles /\ [][NextPipeline]_vars

(***************************************************************************)
(* Properties.  A step is recognised by the observation it leaves in ret.  *)
(***************************************************************************)
EngineOps == {"execute_code_change", "execute_touch_file", "execute_noop"}

IsEngineCall(r) == r.op \in EngineOps

IsDispatchOf(r, a) == r.op = "dispatch" /\ r.handler = a

IsExecuteCall(r) == IsEngineCall(r) \/ IsDispatchOf(r, "execute")

HasReport(rp, id) == \E i \in 1..Len(rp) : rp[i].dds_id = id

HasSuccessReport(rp, id) == \E i \in 1..Len(rp) : rp[i].dds_id = id /\ rp[i].status = "success"

HasFailedReport(rp, id) == \E i \in 1..Len(rp) : rp[i].dds_id = id /\ rp[i].status = "failed"

AnyApproved(st, id) == \E i \in 1..Len(st) : st[i].id = id /\ st[i].status = "approved"

StatusOf(st, id) == IF HasId(st, id) THEN st[FirstIndex(st, id)].status ELSE "absent"

SeqToSet(q) == {q[i] : i \in 1..Len(q)}

\* C1: the execution effect of a proposal id happens at most once, and once a
\* report for the id exists (success or failed) no later step -- dispatch(EXECUTE),
\* Scheduler.run, approve, reject -- adds an execution effect for that id
C1_AtMostOnceEffect ==
    [][\A id \in IdsOf(store') :
          /\ EffectCount(effects', id) <= 1
          /\ HasReport(reports, id) => EffectCount(effects', id) = EffectCount(effects, id)]_vars

\* a failed execution with its effect, followed by an execute request that is refused
C1_Witness ==
    /\ IsDispatchOf(ret, "execute")
    /\ ret.err = "already_executed"
    /\ HasFailedReport(reports, ret.id)
    /\ ~HasSuccessReport(reports, ret.id)
    /\ EffectCount(effects, ret.id) = 1

\* C2 as stated: with a success report for the id, every later execute call on it,
\* through dispatch(EXECUTE) or the engine, fails with the already-executed error
C2_AlwaysAlreadyExecuted ==
    [][(IsExecuteCall(ret') /\ HasSuccessReport(reports, ret'.id))
          => ret'.err = "already_executed"]_vars

\* C2 amended: with a success report for the id, every later execute call has no
\* execution effect and fails; the engine's entry points fail with the
\* already-executed error whatever the status, dispatch(EXECUTE) does so when the
\* status is approved and fails with not-found-or-not-approved otherwise
C2_AlreadyExecutedByEntryPoint ==
    [][(IsExecuteCall(ret') /\ HasSuccessReport(reports, ret'.id))
          => /\ ret'.effected = <<>>
             /\ effects' = effects
             /\ ret'.out \in {"raise", "error"}
             /\ ret'.err = IF ret'.op = "dispatch" /\ StatusOf(store, ret'.id) # "approved"
                           THEN "not_found_or_not_approved"
                           ELSE "already_executed"]_vars

\* an executed or rejected proposal with a success report, and an engine call refused
C2_Witness ==
    /\ IsEngineCall(ret)
    /\ ret.err = "already_executed"
    /\ HasSuccessReport(reports, ret.id)
    /\ StatusOf(store, ret.id) \in {"executed", "rejected"}

IsApproveOf(r, id) == r.id = id /\ (r.op = "approve" \/ IsDispatchOf(r, "dds_approve"))

\* C4: a proposal written by ReactiveWorker.run has status proposed, the run changes
\* the status of no existing proposal, and a fix proposal gets status approved only
\* in an approve step that names its id
C4_FixesAwaitApproval ==
    [][/\ ret'.op = "worker_run"
            => /\ Len(store') >= Len(store)
               /\ \A i \in 1..Len(store') :
                     IF i <= Len(store) THEN store'[i].status = store[i].status
                     ELSE store'[i].status = "proposed"
       /\ \A i \in 1..Len(store') :
             (/\ store'[i].type = "code_fix"
              /\ store'[i].status = "approved"
              /\ (i > Len(store) \/ store[i].status # "approved"))
                => IsApproveOf(ret', store'[i].id)]_vars

\* the worker has just written a fix for a failed proposal
C4_Witness ==
    /\ ret.op = "worker_run"
    /\ ret.out = "completed"
    /\ store[Len(store)].type = "code_fix"
    /\ store[Len(store)].source = ret.id
    /\ store[Len(store)].status = "proposed"
    /\ StatusOf(store, ret.id) \in {"approved", "failed"}

LifecycleMoves ==
    { <<"draft", "proposed">>, <<"proposed", "approved">>, <<"approved", "executed">>,
      <<"approved", "failed">>, <<"proposed", "rejected">>, <<"approved", "rejected">>,
      <<"proposed", "failed">> }

\* C5: every change of a proposal's status is a move of the lifecycle, so a
\* rejected, executed or failed proposal keeps its status
C5_LifecycleMovesOnly ==
    [][\A i \in 1..Len(store) :
          store'[i].status # store[i].status
            => <<store[i].status, store'[i].status>> \in LifecycleMoves]_vars

ApprovedIds(st) == {st[i].id : i \in {j \in 1..Len(st) : st[j].status = "approved"}}

\* the place of an id among the approved ids in ascending order
RankOf(st, id) == Cardinality({x \in ApprovedIds(st) : IdLess(x, id)}) + 1

NewReports(id) == {i \in (Len(reports) + 1)..Len(reports') : reports'[i].dds_id = id}

NewSuccess(id) == \E i \in NewReports(id) : reports'[i].status = "success"

\* C6: when the k-th approved proposal in ascending id order is the first whose
\* execution does not succeed, Scheduler.run leaves the k-1 before it executed,
\* the k-th failed, the later ones approved and never passed to the engine, and
\* returns stopped_on_error naming the k-th with executed = k-1 and failed = 1
C6_StopsAtFirstFailure ==
    [][ret'.op = "scheduler_run"
         => LET failing == {id \in ApprovedIds(store) : ~NewSuccess(id)}
            IN IF failing = {}
               THEN ret'.summary.status = "completed"
               ELSE LET kth == CHOOSE id \in failing : \A x \in failing : ~IdLess(x, id)
                        k == RankOf(store, kth)
                    IN /\ \A id \in ApprovedIds(store) :
                             CASE RankOf(store, id) < k -> StatusOf(store', id) = "executed"
                               [] RankOf(store, id) = k -> StatusOf(store', id) = "failed"
                               [] OTHER -> /\ StatusOf(store', id) = "approved"
                                           /\ id \notin SeqToSet(ret'.attempted)
                                           /\ NewReports(id) = {}
                       /\ Len(ret'.attempted) = k
                       /\ ret'.summary = [status |-> "stopped_on_error", executed |-> k - 1,
                                          failed |-> 1, failed_dds |-> kth]]_vars

\* a run over three approved proposals that stopped at the second
C6_Witness ==
    /\ ret.op = "scheduler_run"
    /\ ret.summary.status = "stopped_on_error"
    /\ ret.summary.executed = 1
    /\ Len(ret.attempted) = 2
    /\ Len(store) = 3
    /\ Cardinality({i \in 1..3 : store[i].status = "executed"}) = 1
    /\ Cardinality({i \in 1..3 : store[i].status = "failed"}) = 1
    /\ Cardinality({i \in 1..3 : store[i].status = "approved"}) = 1

\* C7: Scheduler.run passes proposals to the engine in strictly ascending id
\* order, whatever their order in the store, and only proposals that were
\* approved when the run started
C7_AscendingIdOrder ==
    [][ret'.op = "scheduler_run"
         => /\ \A i, j \in 1..Len(ret'.attempted) :
                   i < j => IdLess(ret'.attempted[i], ret'.attempted[j])
            /\ \A i \in 1..Len(ret'.attempted) : ret'.attempted[i] \in ApprovedIds(store)]_vars

\* a run that executed two proposals stored in descending id order
C7_Witness ==
    /\ ret.op = "scheduler_run"
    /\ Len(ret.attempted) >= 2
    /\ \E i, j \in 1..Len(store) :
          /\ i < j
          /\ IdLess(store[j].id, store[i].id)
          /\ {store[i].id, store[j].id} \subseteq SeqToSet(ret.attempted)

\* an allowed path that holds "..", is absolute, or resolves outside the workspace
OffendingPath(p) ==
    \/ HasDotDot(p)
    \/ p.abs
    \/ ~IsPrefix(WorkspaceRoot, Resolve(<<>>, Join(WorkspaceRoot, p)))

HasOffendingPath(st, id) ==
    \E i \in 1..Len(st) : st[i].id = id /\ \E j \in 1..Len(st[i].paths) : OffendingPath(st[i].paths[j])

\* C8: the external tool is never invoked for a proposal with an offending
\* allowed path, and executing such an approved, not yet executed proposal
\* appends a failed report
C8_TraversalRejected ==
    [][/\ \A id \in SeqToSet(ret'.effected) : ~HasOffendingPath(store, id)
       /\ (/\ ret'.op = "execute_code_change"
           /\ AnyApproved(store, ret'.id)
           /\ ~HasReport(reports, ret'.id)
           /\ HasOffendingPath(store, ret'.id))
             => /\ ret'.out = "raise"
                /\ HasFailedReport(reports', ret'.id)]_vars

RegisteredForClaim == {"telegram", "cli", "voice"}

MutatingForClaim == {"dds_new", "dds_approve", "dds_reject", "execute", "todo_to_dds"}

SourcePermitted(q) ==
    \/ q.source \in {"telegram", "cli"}
    \/ q.source = "voice" /\ q.action \notin MutatingForClaim

LastAudit(a) == a[Len(a)]

GuardRejected ==
    /\ ret'.out = "error"
    /\ ret'.level = "guard_reject"
    /\ ret'.handler = ""
    /\ store' = store
    /\ reports' = reports
    /\ effects' = effects
    /\ Len(audit') = Len(audit) + 1
    /\ LastAudit(audit').level = "guard_reject"
    /\ LastAudit(audit').status = "error"

\* C9: a dispatch of an action from a source that is not registered, or of a
\* mutating action from voice, is an error audited at guard_reject with no handler
\* invoked and the store and the reports unchanged; a handler runs only for a
\* permitted source, and no request from telegram or cli, nor a read-only one from
\* voice, is denied for its source
C9_SourceGuard ==
    [][(ret'.op = "dispatch" /\ ret'.req.action \in Actions)
         => /\ ~SourcePermitted(ret'.req) => GuardRejected
            /\ ret'.handler # "" => SourcePermitted(ret'.req)
            /\ SourcePermitted(ret'.req) => ret'.err # "source_denied"]_vars

\* a mutating request from voice was rejected for its source
C9_Witness ==
    /\ ret.op = "dispatch"
    /\ ret.req.source = "voice"
    /\ ret.req.action = "execute"
    /\ ret.err = "source_denied"
    /\ ret.level = "guard_reject"
    /\ AnyApproved(store, ret.id)

\* the keys the schema of an action requires
RequiredForClaim(a) ==
    CASE a \in {"project_info", "project_summary", "project_status"} -> {"name"}
      [] a = "dds_new" -> {"project", "title", "description"}
      [] a \in {"dds_approve", "dds_reject"} -> {"proposal_id"}
      [] a = "execute" -> {"dds_id"}
      [] a = "todo_to_dds" -> {"todo_id"}
      [] OTHER -> {}

MissingKeys(q) == RequiredForClaim(q.action) \ DOMAIN q.payload

UserPermitted(q) == config = OpenConfig \/ \E i \in 1..Len(config) : config[i].uid = q.user_id

\* C10 as stated: a dispatch whose payload lacks a required key is an error
\* audited at guard_reject with the detail payload_invalid and no handler invoked
C10_MissingKeyIsPayloadInvalid ==
    [][(ret'.op = "dispatch" /\ ret'.req.action \in Actions /\ MissingKeys(ret'.req) # {})
         => /\ GuardRejected
            /\ LastAudit(audit').error_detail.kind = "payload_invalid"]_vars

\* C10 amended: a dispatch whose payload lacks a required key is an error audited
\* at guard_reject with no handler invoked, and its detail is payload_invalid when
\* the user and the source pass their guards; a payload with every required key is
\* never rejected as invalid, whatever optional keys it lacks or extra keys it has
C10_PayloadGuard ==
    [][(ret'.op = "dispatch" /\ ret'.req.action \in Actions)
         => IF MissingKeys(ret'.req) # {}
            THEN /\ GuardRejected
                 /\ LastAudit(audit').error_detail.kind =
                        IF ~UserPermitted(ret'.req) THEN "user_not_allowed"
                        ELSE IF ~SourcePermitted(ret'.req) THEN "source_denied"
                        ELSE "payload_invalid"
            ELSE /\ ret'.err # "payload_invalid"
                 /\ LastAudit(audit').error_detail.kind # "payload_invalid"]_vars

\* a request with a permitted source and user was rejected for a missing key
C10_Witness ==
    /\ ret.op = "dispatch"
    /\ ret.req.action = "dds_new"
    /\ ret.req.source = "telegram"
    /\ DOMAIN ret.req.payload = {"project", "title", "extra"}
    /\ ret.err = "payload_invalid"
    /\ LastAudit(audit).level = "guard_reject"

\* the first guard of dispatch a request violates, "" when it violates none
FirstViolated(q) ==
    IF q.action \notin Actions THEN "action_not_in_whitelist"
    ELSE IF ~UserPermitted(q) THEN "user_not_allowed"
    ELSE IF ~SourcePermitted(q) THEN "source_denied"
    ELSE IF MissingKeys(q) # {} THEN "payload_invalid"
    ELSE ""

IsPrefixOf(a, b) == Len(a) <= Len(b) /\ \A i \in 1..Len(a) : b[i] = a[i]

\* C11: every call of dispatch returns a response and appends exactly one entry
\* to the audit log, the entry carries the audit_id of the response, and the
\* entries already in the log stay as they are
C11_OneAuditEntryPerDispatch ==
    [][ret'.op = "dispatch"
         => /\ ret'.out \in {"ok", "error"}
            /\ Len(audit') = Len(audit) + 1
            /\ IsPrefixOf(audit, audit')
            /\ LastAudit(audit').audit_id = ret'.audit_id]_vars

\* C12: a request that violates a guard is rejected with the message and the
\* error_detail of the earliest guard it violates, in the order action, user,
\* source, payload, and no handler is invoked
C12_EarliestGuardDecides ==
    [][(ret'.op = "dispatch" /\ FirstViolated(ret'.req) # "")
         => /\ GuardRejected
            /\ ret'.err = FirstViolated(ret'.req)
            /\ LastAudit(audit').error_detail.kind = FirstViolated(ret'.req)]_vars

\* C13: dispatch of an action that is no member of Action returns an error
\* response with no action, invokes no handler and appends one audit entry of
\* level guard_reject with the detail action_not_in_whitelist
C13_ForeignActionFailsClosed ==
    [][(ret'.op = "dispatch" /\ ret'.req.action \notin Actions)
         => /\ GuardRejected
            /\ ret'.action = "none"
            /\ LastAudit(audit').error_detail.kind = "action_not_in_whitelist"]_vars

C15_UserGuard ==
    [][ret'.op = "dispatch"
         => LET listed == {config[i].uid : i \in 1..Len(config)} \ {""}
                open == \A i \in 1..Len(config) : config[i].uid = "" /\ Len(config) = 1
            IN IF open
               THEN ret'.err # "user_not_allowed"
               ELSE /\ ret'.handler # "" => ret'.req.user_id \in listed
                    /\ ret'.req.user_id \notin listed => GuardRejected]_vars

\* C16: an exception of a handler is caught: dispatch returns an error response
\* for the action requested, and the one audit entry of the request has level
\* error and a detail with the type and text of the exception, the text of an
\* execution error carrying its category tag
C16_HandlerExceptionCaught ==
    [][(ret'.op = "dispatch" /\ ret'.handler # "")
         => /\ ret'.out \in {"ok", "error"}
            /\ ret'.raised
                 => /\ ret'.out = "error"
                    /\ ret'.action = ret'.req.action
                    /\ Len(audit') = Len(audit) + 1
                    /\ IsPrefixOf(audit, audit')
                    /\ LastAudit(audit').level = "error"
                    /\ LastAudit(audit').status = "error"
                    /\ LastAudit(audit').action = ret'.req.action
                    /\ LastAudit(audit').error_detail.kind = "handler_exception"
                    /\ LastAudit(audit').error_detail.info.type # ""
                    /\ ret'.req.action = "execute"
                         => LastAudit(audit').error_detail.info.tag
                               \in {"dds_error", "env_error", "exec_error"}]_vars

\* an execute request for a proposal that is not approved raised in its handler
C16_Witness ==
    /\ ret.op = "dispatch"
    /\ ret.req.action = "execute"
    /\ ret.raised
    /\ ret.err = "not_found_or_not_approved"
    /\ LastAudit(audit).level = "error"
    /\ LastAudit(audit).error_detail.info.tag = "dds_error"

IsFix(p) == p.type = "code_fix"

FixesFor(st, id) == {i \in 1..Len(st) : IsFix(st[i]) /\ st[i].source = id}

\* notes of the environment/infra kind, and of the kind a fix can address
InfraNotesForClaim == {"Timeout: execution exceeded 300s limit", "Aider command not found"}

FixableNotesForClaim ==
    {"NameError: name 'logger' is not defined", "Missing or invalid required field: instructions"}

DraftedFix == ret'.op = "worker_run" /\ Len(store') > Len(store)

\* C17: a fix proposal that ReactiveWorker.run creates is drafted from a failed
\* report of its source whose notes match no environment/infra pattern
C17_NoFixFromInfraFailure ==
    [][DraftedFix
         => LET fix == store'[Len(store')]
            IN /\ Len(store') = Len(store) + 1
               /\ IsFix(fix)
               /\ fix.errctx.error_message \notin InfraNotesForClaim
               /\ \E i \in 1..Len(reports) :
                     /\ reports[i].dds_id = fix.source
                     /\ reports[i].status = "failed"
                     /\ reports[i].notes = fix.errctx.error_message]_vars

\* the latest entry of the log is a timeout, and the worker drafted a fix from
\* the failure before it
C17_Witness ==
    /\ ret.op = "worker_run"
    /\ ret.out = "completed"
    /\ Len(reports) = 2
    /\ reports[2].status = "failed"
    /\ reports[2].action_type = "code_change"
    /\ reports[2].notes = "Timeout: execution exceeded 300s limit"
    /\ reports[2].dds_id = ret.id
    /\ reports[1].dds_id = ret.id

\* C18: the store never holds two fix proposals with the same source, and a run
\* that detects a failure whose source has a fix creates no proposal
C18_NoDuplicateFix ==
    [][/\ \A id \in PipelineIds : Cardinality(FixesFor(store', id)) <= 1
       /\ (ret'.op = "worker_run" /\ ret'.id # NoId /\ FixesFor(store, ret'.id) # {})
             => store' = store]_vars

\* a new worker detected a failure that has its fix and created nothing
C18_Witness ==
    /\ ret.op = "worker_run"
    /\ ret.err = "exists"
    /\ processed = {}
    /\ Cardinality(FixesFor(store, ret.id)) = 1

FixableFailure(id) ==
    /\ HasId(store, id)
    /\ \E i \in 1..Len(reports) :
          /\ reports[i].dds_id = id
          /\ reports[i].status = "failed"
          /\ reports[i].action_type = "code_change"
          /\ reports[i].notes \in FixableNotesForClaim

\* C19: while the worker keeps being run, a proposal of the store with a failed
\* code_change report of the field-validation or constraint kind eventually has
\* exactly one fix (or the clock of the model has reached its last reading)
C19_EveryFailureGetsOneFix ==
    \A id \in PipelineIds :
        FixableFailure(id) ~> (Cardinality(FixesFor(store, id)) = 1 \/ clock = MaxPipelineClock)

\* C20: the fix drafted for a failed proposal has max_files_changed = min(M, 3)
\* for the maximum M the proposal declares, both flags true, the allowed paths of
\* the proposal, status proposed, and source_dds and error_context.original_dds
\* equal to the proposal's id
C20_FixRestrictsConstraints ==
    [][DraftedFix
         => LET fix == store'[Len(store')]
                src == store[FirstIndex(store, ret'.id)]
            IN /\ (src.cons.present /\ src.cons.max >= 0)
                    => fix.cons.max = (IF src.cons.max < 3 THEN src.cons.max ELSE 3)
               /\ fix.cons.nodeps
               /\ fix.cons.norefactor
               /\ src.paths # <<>> => fix.paths = src.paths
               /\ fix.status = "proposed"
               /\ fix.source = src.id
               /\ fix.errctx.original_dds = src.id]_vars

\* C21: no two proposals of the store share an id, whatever creations produced
\* them and however close in time they were
C21_IdsUnique ==
    \A i, j \in 1..Len(store) : i # j => store[i].id # store[j].id

\* a proposal whose id is built by one of the id generators of the code
Generated(p) == p.id.k \in {"new", "reg", "fix"}

\* C22: of two proposals with generated ids the one created earlier (it stands
\* earlier in the store, which only grows at its end) has the smaller id
C22_IdOrderIsCreationOrder ==
    \A i, j \in 1..Len(store) :
        (i < j /\ Generated(store[i]) /\ Generated(store[j])) => IdLess(store[i].id, store[j].id)

\* the steps that name a proposal id: approve and reject of the id, and a
\* scheduler run or an execute call that passes the id to the engine
NamesId(r, id) ==
    \/ r.id = id /\ (r.op \in {"approve", "reject"} \/ IsDispatchOf(r, "dds_approve")
                                                     \/ IsDispatchOf(r, "dds_reject"))
    \/ id \in SeqToSet(r.attempted)

\* C23: a step of the proposal store removes no proposal and changes, of the
\* proposals already there, only the status of the one it names and the
\* last-execution record of one the engine ran; every other field (a touch_file
\* proposal's path and content, the type, the execution fields, the paths, the
\* constraints) and every other proposal stay as they were
C23_MutationsChangeOnlyWhatTheyName ==
    [][/\ Len(store') >= Len(store)
       /\ \A i \in 1..Len(store) :
             /\ [store'[i] EXCEPT !.status = store[i].status, !.last = store[i].last] = store[i]
             /\ store'[i].status # store[i].status => NamesId(ret', store[i].id)
             /\ store'[i].last # store[i].last
                   => /\ store[i].id \in SeqToSet(ret'.attempted)
                      /\ store'[i].last \in {"success", "failed"}]_vars

\* C24: every proposal with status approved, executed or failed carries the
\* execution fields (schema version, goal, instruction list, tool)
C24_ApprovedCarryExecutionFields ==
    \A i \in 1..Len(store) :
        store[i].status \in {"approved", "executed", "failed"} => store[i].exec \notin {"absent", "no_instructions"}

\* C25: in every step the report log before the step is a prefix of the log
\* after it, an execute call appends at most one report and a scheduler run at
\* most one for each proposal it passes to the engine
C25_ReportLogOnlyGrows ==
    [][/\ IsPrefixOf(reports, reports')
       /\ IsExecuteCall(ret') => Len(reports') <= Len(reports) + 1
       /\ ret'.op = "scheduler_run" => Len(reports') <= Len(reports) + Len(ret'.attempted)
       /\ ret'.op \in {"worker_run", "approve", "reject", "add_proposal"} => reports' = reports]_vars

\* a second report appended behind the first one by a failing execute request
C25_Witness ==
    /\ IsDispatchOf(ret, "execute")
    /\ ret.raised
    /\ Len(reports) = 2
    /\ reports[2].dds_id = ret.id
    /\ reports[1].dds_id # ret.id

\* a proposal the router executes as a noop: its type is noop or it has none
IsNoop(st, id) == HasId(st, id) /\ st[FirstIndex(st, id)].type \in {"none", "noop"}

\* C26: the first execute request for an approved noop proposal appends a
\* report with outcome success for it, and no run of the worker drafts a fix
\* whose source is a noop proposal
C26_NoopSucceedsAndIsNeverFixed ==
    [][/\ (/\ IsDispatchOf(ret', "execute")
           /\ IsNoop(store, ret'.id)
           /\ StatusOf(store, ret'.id) = "approved"
           /\ ~HasReport(reports, ret'.id))
             => reports' = Append(reports, Report(ret'.id, "noop", "success", "noop_completed"))
       /\ \A i \in (Len(store) + 1)..Len(store') :
             store'[i].type = "code_fix" => ~IsNoop(store, store'[i].source)]_vars

\* C27: the read-only and the mutating actions partition the Action enum, and
\* the read_only flag of the response to a request for a member of Action is
\* the classification of the request's action
C27_ReadWritePartition ==
    /\ ReadOnlyActions \cap WriteActions = {}
    /\ ReadOnlyActions \cup WriteActions = Actions
    /\ \A a \in Actions : is_read_only(a) # is_write(a)
    /\ (ret.op = "dispatch" /\ ret.req.action \in Actions)
          => /\ ret.read_only = (ret.req.action \in ReadOnlyActions)
             /\ ret.read_only = (ret.req.action \notin WriteActions)

\* a mutating action rejected by a guard, and its response flagged as not read-only
C27_Witness ==
    /\ ret.op = "dispatch"
    /\ ret.req.action \in WriteActions
    /\ ret.level = "guard_reject"
    /\ ~ret.read_only

\* the idempotency checks and the approved-status check of execute_code_change pass
PastChecks(st, rp, id) ==
    /\ ~check_already_executed(st, id)
    /\ ~is_already_executed(rp, id)
    /\ HasApproved(st, id)

\* C28: an execute_code_change call that gets past the idempotency and the
\* approved-status checks appends exactly one code_change report for the id and
\* writes the report's status into the proposal's last-execution record; when
\* the call raises, the report is failed and carries the text of the error
C28_ReportAndRecordAlwaysWritten ==
    [][(IsExecuteCall(ret') /\ PastChecks(store, reports, ret'.id))
          => \E r \in {reports'[Len(reports')]} :
                /\ reports' = Append(reports, r)
                /\ r.dds_id = ret'.id
                /\ r.action_type = "code_change"
                /\ r.status \in {"success", "failed"}
                /\ store'[FirstIndex(store', ret'.id)].last = r.status
                /\ [store' EXCEPT ![FirstIndex(store', ret'.id)].last = "none"]
                      = [store EXCEPT ![FirstIndex(store, ret'.id)].last = "none"]
                /\ IF ret'.err # "" THEN r.status = "failed" /\ r.notes = ret'.err
                   ELSE ret'.op = "dispatch" \/ ret'.out = r.status]_vars

\* an exception nobody expected (the copy of an allowed path onto itself),
\* reported as a failed execution and raised to the caller
C28_Witness ==
    /\ ret.op = "execute_code_change"
    /\ ret.out = "raise"
    /\ ret.err = "workspace_creation_failed"
    /\ reports = <<Report(ret.id, "code_change", "failed", "workspace_creation_failed")>>
    /\ store[FirstIndex(store, ret.id)].last = "failed"

\* the first call of execute_code_change for an approved proposal
FirstCodeChange(r) == r.op = "execute_code_change" /\ r.effected # <<>>

\* the files of the second snapshot that the first does not hold or holds with
\* another digest
CreatedOrModified(before, after) ==
    {f \in DOMAIN after : f \notin DOMAIN before \/ before[f] # after[f]}

\* a violation as the constraints are declared: more files created or modified
\* than the declared maximum; a dependency manifest among them although
\* no_new_dependencies is set; more than three of them although no_refactor is set
Violation(cons, changed) ==
    \/ cons.max >= 0 /\ Cardinality(changed) > cons.max
    \/ cons.nodeps /\ "requirements.txt" \in changed
    \/ cons.norefactor /\ Cardinality(changed) > 3

\* C29: the report of a code change is success exactly when the diff violates
\* none of the constraints, and with no violation and no file created or
\* modified it is success with the note that no files changed
C29_SuccessIffNoViolation ==
    [][FirstCodeChange(ret')
          => LET changed == CreatedOrModified(BeforeSnapshot, ret'.tool_run.files)
                 report == reports'[Len(reports')]
             IN /\ Len(reports') = Len(reports) + 1
                /\ report.status = "success" <=> ~Violation(store[1].cons, changed)
                /\ report.status = ret'.out
                /\ (~Violation(store[1].cons, changed) /\ changed = {})
                      => report.notes = "no_changes"]_vars

\* four files changed under a maximum of four: failed for the refactoring alone
C29_Witness ==
    /\ FirstCodeChange(ret)
    /\ store[1].cons.max = 4 /\ store[1].cons.norefactor /\ ~store[1].cons.nodeps
    /\ Cardinality(CreatedOrModified(BeforeSnapshot, ret.tool_run.files)) = 4
    /\ reports[1].status = "failed"

C31_FailureAlwaysReported ==
    [][(/\ ret'.op \in {"execute_touch_file", "execute_noop"}
        /\ ~is_already_executed(reports, ret'.id)
        /\ HasApproved(store, ret'.id)
        /\ ret'.out = "raise")
          => /\ Len(reports') = Len(reports) + 1
             /\ IsPrefixOf(reports, reports')
             /\ reports'[Len(reports')].dds_id = ret'.id
             /\ reports'[Len(reports')].status = "failed"]_vars

\* the entries of a log that are failed, of a code action, of an id not in the
\* processed set and with notes that hold no unfixable pattern
Eligible(rp, proc) ==
    {i \in 1..Len(rp) : /\ rp[i].status = "failed"
                        /\ rp[i].action_type \in {"code_change", "code_fix"}
                        /\ rp[i].dds_id \notin proc
                        /\ ~is_unfixable_error(rp[i].notes)}

\* C32: get_latest_failure returns the eligible entry that is latest in append
\* order and nothing when no entry is eligible, leaves the log and the
\* processed set as they are, and never returns an entry of a processed id
C32_LatestEligibleFailure ==
    [][ret'.op = "get_latest_failure"
          => /\ UNCHANGED <<reports, processed>>
             /\ (Eligible(reports, processed) = {}) = (ret'.out = "none")
             /\ ret'.out \in {"none", "found"}
             /\ ret'.out = "found"
                   => LET last == CHOOSE i \in Eligible(reports, processed) :
                                      \A j \in Eligible(reports, processed) : j <= i
                      IN /\ ret'.id = reports[last].dds_id
                         /\ ret'.err = reports[last].notes
                         /\ ret'.action = reports[last].action_type
                         /\ ret'.id \notin processed]_vars

\* an entry is returned although a later failed entry exists, which belongs to
\* an id marked processed, and an earlier eligible entry exists too
C32_Witness ==
    /\ ret.op = "get_latest_failure"
    /\ ret.out = "found"
    /\ \E i \in Eligible(reports, processed) :
          /\ reports[i].dds_id = ret.id
          /\ \E j \in 1..(i - 1) : j \in Eligible(reports, processed)
          /\ \E j \in (i + 1)..Len(reports) :
                /\ reports[j].dds_id \in processed
                /\ j \in Eligible(reports, {})

\* the calls that have written their audit entry
DoneCalls == {p \in 1..2 : ret.calls[p].pc = "done"}

\* C33: however the guard, handler and audit steps of two dispatch calls
\* interleave, the audit log holds exactly one entry for each call that has
\* written its entry, the entry built from that call's request and response,
\* and nothing else
C33_InterleavedAuditKeepsEveryEntry ==
    /\ Len(audit) = Cardinality(DoneCalls)
    /\ \E f \in [DoneCalls -> 1..Len(audit)] :
          /\ \A p, q \in DoneCalls : p # q => f[p] # f[q]
          /\ \A p \in DoneCalls : audit[f[p]] = EntryOf(ret.calls[p])

\* the second call ran its guards, its handler and its audit append between
\* the handler and the audit append of the first: its entry stands first in
\* the log although its response was built later
C33_Witness ==
    /\ DoneCalls = {1, 2}
    /\ ret.calls[1].resp.audit_id < ret.calls[2].resp.audit_id
    /\ ret.calls[1].resp.level = "decision"
    /\ ret.calls[2].resp.level = "error"
    /\ audit = <<EntryOf(ret.calls[2]), EntryOf(ret.calls[1])>>

\* C34: a proposal with a success report never has status failed, and a
\* scheduler run neither marks such a proposal failed nor stops on it
C34_SucceededNeverMarkedFailed ==
    [][\A i \in 1..Len(store') :
          HasSuccessReport(reports', store'[i].id)
             => /\ store'[i].status # "failed"
                /\ ret'.op = "scheduler_run" => ret'.summary.failed_dds # store'[i].id]_vars

\* C35: a fix proposal is drafted only from the report of an execution attempt
\* that failed, never from the report that the engine writes when it refuses
\* to run a proposal that has already executed successfully
C35_NoFixFromAlreadyExecuted ==
    [][DraftedFix
         => LET fix == store'[Len(store')]
            IN /\ IsFix(fix)
               /\ fix.errctx.error_message # "already_executed_successfully"
               /\ \E i \in 1..Len(reports) : /\ reports[i].dds_id = fix.source
                                               /\ reports[i].status = "failed"
                                               /\ reports[i].notes # "already_executed_successfully"]_vars

\* C36: a code change whose tool run did not end with exit code 0 (not
\* installed, timeout, non-zero exit) is not reported with outcome success
C36_ToolFailureIsNotSuccess ==
    [][(/\ ret'.op = "execute_code_change"
        /\ PastChecks(store, reports, ret'.id)
        /\ ret'.tool_run.outcome \in ToolOutcomes \ {"exit_0"})
          => /\ Len(reports') = Len(reports) + 1
             /\ reports'[Len(reports')].status # "success"
             /\ ret'.out # "success"]_vars

\* C37: the execution of an approved fix proposal that generate_fix_dds
\* produced is not refused by the structural validation on account of its
\* type code_fix
C37_ApprovedFixPassesValidation ==
    [][(/\ IsExecuteCall(ret')
        /\ HasId(store, ret'.id)
        /\ IsFix(store[FirstIndex(store, ret'.id)])
        /\ PastChecks(store, reports, ret'.id))
          => ret'.err # "invalid_type"]_vars

\* C38: the report a scheduler run writes for the first proposal it executes
\* (approved, of type code_change, touch_file or noop, not executed before) has
\* the outcome and the action type of the report that an execute request for
\* the proposal writes from the same state
C38_SchedulerMatchesDispatch ==
    [][(/\ ret'.op = "scheduler_run"
        /\ ret'.attempted # <<>>
        /\ PastChecks(store, reports, ret'.attempted[1])
        /\ store[FirstIndex(store, ret'.attempted[1])].type \in {"code_change", "touch_file", "noop"})
          => \E after \in ToolRuns :
                LET h == handle_execute(store, reports, ret'.attempted[1], after)
                IN /\ Len(h.rp) = Len(reports) + 1
                   /\ Len(reports') > Len(reports)
                   /\ h.rp[Len(h.rp)].dds_id = reports'[Len(reports) + 1].dds_id
                   /\ h.rp[Len(h.rp)].status = reports'[Len(reports) + 1].status
                   /\ h.rp[Len(h.rp)].action_type = reports'[Len(reports) + 1].action_type]_vars

\* C39: the duplicate check stops the drafting of a fix for a source only when
\* the store holds a fix proposal whose source is that id
C39_OnlyOwnFixBlocks ==
    [][(ret'.op = "worker_run" /\ ret'.err = "exists") => FixesFor(store, ret'.id) # {}]_vars

\* C40: an approve, reject or execute request that got past the guards and
\* names an id the store does not hold returns status error, is audited at
\* level error, and leaves the store as it was
C40_AbsentIdIsAnError ==
    [][(/\ ret'.op = "dispatch"
        /\ ret'.handler \in {"dds_approve", "dds_reject", "execute"}
        /\ ~HasId(store, ret'.id))
          => /\ ret'.out = "error"
             /\ LastAudit(audit').level = "error"
             /\ store' = store]_vars

====
